---- MODULE Spec2Model ----
(***************************************************************************)
(* Model of the deadline-bounded task pipeline of app.py: the /api/task    *)
(* handler, the background operation process_task_with_deadline, the two   *)
(* round pipelines, the GitHub publisher and the notifier send_evaluation. *)
(*                                                                         *)
(* The background operations are asyncio coroutines on one event loop, so  *)
(* an action is the code that runs between two suspension points (the      *)
(* awaited HTTP calls and sleeps); PyGithub calls are synchronous and run  *)
(* inside the action that reaches them.  Time is the number of seconds     *)
(* since the operation's start_time.                                       *)
(***************************************************************************)
EXTENDS Integers, Sequences, FiniteSets, TLC

\* ---------------------------------------------------------------- bounds
\* Number of submissions (operation slots) of one run of the server.
MaxOps == 2
\* Seconds a slow run of synchronous GitHub calls blocks an operation: the
\* time GitHub takes over the first call of the run (create_repo, get_repo);
\* the calls that follow it in the run are answered at once.
GithubSlow == 460
\* Seconds an HTTP call that is answered takes.
ReplyTime == 1
\* Position, in the artifact set, of the file GitHub refuses when a write fails.
RefusedFile == 2

\* ------------------------------------------------------ program constants
MAX_PROCESSING_TIME == 9 * 60
TASK_TIMEOUT == 60 * 8
\* timeout=30.0 of the generator calls
AI_TIMEOUT == 30
\* The attempt timeout as it would be with the timeout=30.0 of the generator
\* calls.
NOTIFY_TIMEOUT_of_generator_calls == AI_TIMEOUT
\* timeout=10.0 of a notification attempt
NOTIFY_TIMEOUT == 10
\* range(3) in send_evaluation
NOTIFY_ATTEMPTS == 3
\* delay = 1 between notification attempts
RETRY_DELAY == 1
\* asyncio.sleep(3) after the serving strategies
PAGES_WAIT == 3

\* [:100] of generate_repo_name
NAME_LIMIT == 100

OpIds == 1..MaxOps
TaskIds == {"t1", "t2"}
\* A task id of 100 characters, and one that the cleaning of
\* generate_repo_name changes; `task: str` puts no limit on either.
LongTask == "aaaaaaaaaaaaaaaaaaaaaaaaaaaaaaaaaaaaaaaaaaaaaaaaaaaaaaaaaaaaaaaaaaaaaaaaaaaaaaaaaaaaaaaaaaaaaaaaaaaa"
MixedTask == "T_1"
AllTaskIds == TaskIds \cup {LongTask, MixedTask}
Rounds == {1, 2, 3}
Secrets == {"hvk1995", "wrong"}
GithubTimes == {0, GithubSlow}

\* A repository name is a string; an address is a host and a name; a revision
\* is the number of the commit in its repository.
NoName == "none"
NoUrl == [host |-> "none", name |-> NoName]
NoSha == [name |-> NoName, n |-> 0]
NoReq == [task |-> "none", round |-> 0, secret |-> "none", email |-> <<"none", 0>>,
          nonce |-> <<"none", 0>>, brief |-> <<>>, checks |-> <<>>]
NoRecord == [repo_url |-> NoUrl, email |-> <<"none", 0>>, brief |-> <<>>]
NoInfo == [repo_url |-> NoUrl, commit_sha |-> NoSha, pages_url |-> NoUrl]
NoPayload == [email |-> <<"none", 0>>, task |-> "none", round |-> 0,
              nonce |-> <<"none", 0>>, repo_url |-> NoUrl, commit_sha |-> NoSha,
              pages_url |-> NoUrl]

\* The answers of POST /api/task: the dict handle_task returns (its message
\* is f"Round {request.round} processing started"), and the
\* HTTPException(401) it raises.
NoAck == [status |-> "none", message |-> 0, task |-> "none", round |-> 0]
Acknowledgment(r) ==
  [status |-> "accepted", message |-> r.round, task |-> r.task, round |-> r.round]
Rejection == [status |-> "rejected", message |-> 0, task |-> "none", round |-> 0]

\* The submissions slot o can receive.  Every submission carries its own
\* nonce and submitter; the brief follows the round.
EmailOf(o) == <<"email", o>>
NonceOf(o) == <<"nonce", o>>
BriefOf(rd) == IF rd = 1 THEN <<"build", "a", "Calculator">> ELSE <<"add", "a", "feature">>
ChecksOf(rd) == IF rd = 1 THEN <<"page loads">> ELSE <<"page loads", "feature works">>
TaskRequest(o, RD) ==
  { [task |-> t, round |-> rd, secret |-> s, email |-> EmailOf(o),
     nonce |-> NonceOf(o), brief |-> BriefOf(rd), checks |-> ChecksOf(rd)] :
       t \in TaskIds, rd \in RD, s \in Secrets }

VARIABLES
  CONFIG,       \* SECRET, and whether GITHUB_TOKEN and AIPIPE_API_KEY are set
  tasks,        \* the round store: task id -> record (NoRecord when absent)
  repos,        \* the repository host: address -> file name -> content
  req,          \* the request of each operation slot
  ack,          \* what handle_task answered: NoAck, an Acknowledgment, the Rejection
  audit,        \* what store_received_task did: "none", "stored", "failed"
  pc,           \* where the background operation of the slot is suspended
  elapsed,      \* time.time() - start_time of the operation
  log,          \* the calls the operation has made, in order
  gen_out,      \* what the generator backend did with the operation's request
  app_files,    \* the artifact set the operation holds
  round1_data,  \* the record process_round2 handed to modify_existing_app
  repo_info,    \* the PublishResult (held across the sleep of create)
  sent,         \* the TaskResponse handed to send_evaluation
  existing_code,\* what get_existing_code_from_github returned to the operation
  update_url,   \* the address update_github_repository read from the round store
  attempts,     \* the outcomes of the completed notification attempts
  outcome,      \* how the background operation ended
  waited,       \* the part of elapsed spent while another operation's
                \* synchronous calls held the event loop
  TASK_TEMPLATES,       \* task_templates.py: the module-level template table
  issued,               \* the last call of get_template_task and what it returned
  created_repos_schema, \* evaluation.db of the receiver: the created_repos table
  created_repos,        \* the rows of created_repos
  reply                 \* the last answer of POST /evaluate, with its request

service == <<CONFIG, tasks, repos, req, ack, audit, pc, elapsed, log, gen_out,
             app_files, round1_data, repo_info, sent, existing_code, update_url,
             attempts, outcome, waited>>
instructor == <<TASK_TEMPLATES, issued>>
receiver == <<created_repos_schema, created_repos, reply>>
vars == <<service, instructor, receiver>>

\* ---- task_templates.py: the table as the module text defines it ----

\* The placeholder of the attachment URLs.  The data part of a URL is text,
\* kept as the sequence of its pieces.
Placeholder == <<"${seed_data}">>
DataUrl(mime, data) == [mime |-> mime, data |-> data]
Attachment(name, mime) == [name |-> name, url |-> DataUrl(mime, Placeholder)]

\* A template: its attachments (none when the key is absent) and, per round 2
\* variant, the attachments of the variant.
TemplateIds == {"sum-of-sales", "markdown-to-html", "github-user-created"}
TemplateTable ==
  [id \in TemplateIds |->
     CASE id = "sum-of-sales" ->
            [attachments |-> << Attachment("data.csv", "text/csv") >>,
             round2 |-> << [attachments |-> <<>>],
                           [attachments |->
                              << Attachment("rates.json", "application/json") >>] >>]
       [] id = "markdown-to-html" ->
            [attachments |-> << Attachment("input.md", "text/markdown") >>,
             round2 |-> << [attachments |-> <<>>], [attachments |-> <<>>] >>]
       [] OTHER ->
            [attachments |-> <<>>,
             round2 |-> << [attachments |-> <<>>], [attachments |-> <<>>] >>]]

NoCall ==
  [template_id |-> "none", email |-> "none", hour_seed |-> "none", round_num |-> 0,
   variant |-> 0, raised |-> "none", result |-> <<>>]
InstructorInit ==
  /\ TASK_TEMPLATES = TemplateTable
  /\ issued = NoCall

\* ---- notification_receiver.py: the database before any setup ran ----
NoTable == [columns |-> {}, required |-> {}, exists |-> FALSE]
NoRequest ==
  [email |-> "none", task |-> "none", round |-> 0, nonce |-> "none",
   repo_url |-> "none", commit_sha |-> "none", pages_url |-> "none"]
NoReply == [code |-> 0, body |-> "none", request |-> NoRequest, error |-> "none"]
ReceiverInit ==
  /\ created_repos_schema = NoTable
  /\ created_repos = <<>>
  /\ reply = NoReply

Init ==
  /\ CONFIG \in [SECRET : {"hvk1995"}, GITHUB_TOKEN : BOOLEAN, AIPIPE_API_KEY : BOOLEAN]
  /\ tasks = [t \in AllTaskIds |-> NoRecord]
  /\ repos = <<>>
  /\ req = [o \in OpIds |-> NoReq]
  /\ ack = [o \in OpIds |-> NoAck]
  /\ audit = [o \in OpIds |-> "none"]
  /\ pc = [o \in OpIds |-> "idle"]
  /\ elapsed = [o \in OpIds |-> 0]
  /\ log = [o \in OpIds |-> <<>>]
  /\ gen_out = [o \in OpIds |-> "none"]
  /\ app_files = [o \in OpIds |-> <<>>]
  /\ round1_data = [o \in OpIds |-> NoRecord]
  /\ repo_info = [o \in OpIds |-> NoInfo]
  /\ sent = [o \in OpIds |-> NoPayload]
  /\ existing_code = [o \in OpIds |-> <<>>]
  /\ update_url = [o \in OpIds |-> NoUrl]
  /\ attempts = [o \in OpIds |-> <<>>]
  /\ outcome = [o \in OpIds |-> "none"]
  /\ waited = [o \in OpIds |-> 0]
  /\ InstructorInit
  /\ ReceiverInit

\* ------------------------------------------------------------ handle_task
\* import sqlite3 is missing from app.py: sqlite3.connect raises NameError
\* inside the try of store_received_task.
sqlite3_imported == FALSE

\* store_received_task: the insert, with every exception caught and logged.
store_received_task(dbok) == IF sqlite3_imported /\ dbok THEN "stored" ELSE "failed"

\* handle_task as it would be if it awaited process_task_with_deadline itself
\* instead of handing it to background_tasks: the pipeline starts while the
\* acknowledgment is still to be returned.
handle_task_awaits_pipeline(o, r, dbok) ==
  /\ pc[o] = "idle"
  /\ IF o = 1 THEN TRUE ELSE pc[o - 1] # "idle"
  /\ req' = [req EXCEPT ![o] = r]
  /\ IF r.secret # CONFIG.SECRET
       THEN /\ ack' = [ack EXCEPT ![o] = Rejection]
            /\ pc' = [pc EXCEPT ![o] = "rejected"]
            /\ UNCHANGED audit
       ELSE /\ audit' = [audit EXCEPT ![o] = store_received_task(dbok)]
            /\ pc' = [pc EXCEPT ![o] = "scheduled"]
            /\ UNCHANGED ack
  /\ UNCHANGED <<instructor, receiver, CONFIG, tasks, repos, elapsed, waited, log, gen_out, app_files, round1_data,
                 repo_info, sent, existing_code, update_url, attempts, outcome>>

\* handle_task as it would be without the comparison of the secret.
handle_task_unchecked(o, r, dbok) ==
  /\ pc[o] = "idle"
  /\ IF o = 1 THEN TRUE ELSE pc[o - 1] # "idle"
  /\ req' = [req EXCEPT ![o] = r]
  /\ audit' = [audit EXCEPT ![o] = store_received_task(dbok)]
  /\ pc' = [pc EXCEPT ![o] = "scheduled"]
  /\ ack' = [ack EXCEPT ![o] = Acknowledgment(r)]
  /\ log' = [log EXCEPT ![o] = Append(@, "ack")]
  /\ UNCHANGED <<instructor, receiver, CONFIG, tasks, repos, elapsed, waited, gen_out, app_files, round1_data,
                 repo_info, sent, existing_code, update_url, attempts, outcome>>

\* handle_task as it would be if store_received_task let its exception out:
\* the request would end in a server error before add_task.
handle_task_audit_uncaught(o, r, dbok) ==
  /\ pc[o] = "idle"
  /\ IF o = 1 THEN TRUE ELSE pc[o - 1] # "idle"
  /\ req' = [req EXCEPT ![o] = r]
  /\ IF r.secret # CONFIG.SECRET
       THEN /\ ack' = [ack EXCEPT ![o] = Rejection]
            /\ pc' = [pc EXCEPT ![o] = "rejected"]
            /\ UNCHANGED <<audit, log>>
       ELSE /\ audit' = [audit EXCEPT ![o] = store_received_task(dbok)]
            /\ IF store_received_task(dbok) = "failed"
                 THEN /\ pc' = [pc EXCEPT ![o] = "rejected"]
                      /\ ack' = [ack EXCEPT ![o] = [Rejection EXCEPT !.status = "error"]]
                      /\ UNCHANGED log
                 ELSE /\ pc' = [pc EXCEPT ![o] = "scheduled"]
                      /\ ack' = [ack EXCEPT ![o] = Acknowledgment(r)]
                      /\ log' = [log EXCEPT ![o] = Append(@, "ack")]
  /\ UNCHANGED <<instructor, receiver, CONFIG, tasks, repos, elapsed, waited, gen_out, app_files, round1_data,
                 repo_info, sent, existing_code, update_url, attempts, outcome>>

\* handle_task as it would be behind an admission control that turns away a
\* submission whose (task, round) is in flight.
handle_task_one_in_flight(o, r, dbok) ==
  /\ pc[o] = "idle"
  /\ IF o = 1 THEN TRUE ELSE pc[o - 1] # "idle"
  /\ req' = [req EXCEPT ![o] = r]
  /\ IF \/ r.secret # CONFIG.SECRET
        \/ \E p \in OpIds : /\ pc[p] \notin {"idle", "rejected", "done"}
                             /\ req[p].task = r.task /\ req[p].round = r.round
       THEN /\ ack' = [ack EXCEPT ![o] = Rejection]
            /\ pc' = [pc EXCEPT ![o] = "rejected"]
            /\ UNCHANGED <<audit, log>>
       ELSE /\ audit' = [audit EXCEPT ![o] = store_received_task(dbok)]
            /\ pc' = [pc EXCEPT ![o] = "scheduled"]
            /\ ack' = [ack EXCEPT ![o] = Acknowledgment(r)]
            /\ log' = [log EXCEPT ![o] = Append(@, "ack")]
  /\ UNCHANGED <<instructor, receiver, CONFIG, tasks, repos, elapsed, waited, gen_out, app_files, round1_data,
                 repo_info, sent, existing_code, update_url, attempts, outcome>>

\* POST /api/task.  Slots are taken in the order of arrival.
handle_task(o, r, dbok) ==
  /\ pc[o] = "idle"
  /\ IF o = 1 THEN TRUE ELSE pc[o - 1] # "idle"
  /\ req' = [req EXCEPT ![o] = r]
  /\ IF r.secret # CONFIG.SECRET
       THEN /\ ack' = [ack EXCEPT ![o] = Rejection]
            /\ pc' = [pc EXCEPT ![o] = "rejected"]
            /\ UNCHANGED <<audit, log>>
       ELSE /\ audit' = [audit EXCEPT ![o] = store_received_task(dbok)]
            /\ pc' = [pc EXCEPT ![o] = "scheduled"]
            /\ ack' = [ack EXCEPT ![o] = Acknowledgment(r)]
            /\ log' = [log EXCEPT ![o] = Append(@, "ack")]
  /\ UNCHANGED <<instructor, receiver, CONFIG, tasks, repos, elapsed, waited, gen_out, app_files, round1_data,
                 repo_info, sent, existing_code, update_url, attempts, outcome>>

\* ------------------------------------------------------- content generator
\* The text of a file: which generator wrote it and what it embeds.
Content(kind, b1, b2, t) == [kind |-> kind, b1 |-> b1, b2 |-> b2, task |-> t]
File(n, c) == [name |-> n, content |-> c]

\* str.lower on the words of a brief.
lower(w) ==
  CASE w = "Calculator" -> "calculator"
    [] w = "CAPTCHA" -> "captcha"
    [] w = "Markdown" -> "markdown"
    [] w = "HTML" -> "html"
    [] OTHER -> w

\* `word in brief_lower`
InBrief(word, brief) == \E i \in 1..Len(brief) : lower(brief[i]) = word

generate_readme(brief, checks, t) == Content("readme", brief, checks, t)
generate_updated_readme(original, modification, t) ==
  Content("updated_readme", original, modification, t)
generate_mit_license == Content("mit_license", <<>>, <<>>, "")
generate_gitignore == Content("gitignore", <<>>, <<>>, "")
generate_fallback_html(brief) == Content("placeholder_html", brief, <<>>, "")

\* The chain as it would be with the captcha test in front of the
\* calculator test.
fallback_html_captcha_first(brief) ==
  IF InBrief("captcha", brief) THEN Content("captcha_html", <<>>, <<>>, "")
  ELSE IF InBrief("calculator", brief) THEN Content("calculator_html", <<>>, <<>>, "")
  ELSE IF InBrief("markdown", brief) \/ InBrief("html", brief)
    THEN Content("markdown_html", <<>>, <<>>, "")
  ELSE generate_fallback_html(brief)

\* The if/elif chain of generate_fallback_app.
fallback_html(brief) ==
  IF InBrief("calculator", brief) THEN Content("calculator_html", <<>>, <<>>, "")
  ELSE IF InBrief("captcha", brief) THEN Content("captcha_html", <<>>, <<>>, "")
  ELSE IF InBrief("markdown", brief) \/ InBrief("html", brief)
    THEN Content("markdown_html", <<>>, <<>>, "")
  ELSE generate_fallback_html(brief)

\* The dict as it would be with a README that carried the nonce of the
\* request.
ArtifactSet_readme_with_nonce(html, r) ==
  << File("index.html", html),
     File("README.md", Content("readme", r.brief, r.checks, r.nonce)),
     File("LICENSE", Content("mit_license", <<>>, <<>>, "")),
     File(".gitignore", Content("gitignore", <<>>, <<>>, "")) >>

\* The dict a round-1 generator returns, in insertion order.
ArtifactSet(html, r) ==
  << File("index.html", html),
     File("README.md", generate_readme(r.brief, r.checks, r.task)),
     File("LICENSE", generate_mit_license),
     File(".gitignore", generate_gitignore) >>

generate_fallback_app(r) == ArtifactSet(fallback_html(r.brief), r)

\* What the generator backend did with a request.
AiOutcomes == {"html", "unexpected", "status", "neterr", "timeout"}

\* generate_app_with_ai once the backend has answered (or not): every branch
\* but the 200-with-code one returns the fallback.
generate_app_with_ai(r, out) ==
  IF out = "html"
    THEN ArtifactSet(Content("ai_html", r.brief, <<>>, ""), r)
    ELSE generate_fallback_app(r)

\* generate_app_with_ai as it would be if the timeout of the call escaped it.
GeneratorRaises_on_timeout(out) == out = "timeout"

\* The outcomes of the backend that generate_app_with_ai lets escape as an
\* exception: none, its try catches every Exception.
GeneratorRaises(out) == FALSE

\* The outcomes that modify_existing_app turns into an exception: a status
\* other than 200 raises inside the try, and the except re-raises whatever it
\* catches.
ModifyRaises(out) == out \notin {"html", "unexpected"}

\* The dict of modify_existing_app as it would be as an overlay that has the
\* README alone.
modified_files_readme_only(r, rec) ==
  << File("README.md", generate_updated_readme(rec.brief, r.brief, r.task)) >>

\* modify_existing_app once the backend has answered with status 200.
modified_files(r, rec) ==
  << File("index.html", Content("ai_html", rec.brief, r.brief, "")),
     File("README.md", generate_updated_readme(rec.brief, r.brief, r.task)) >>

\* Seconds an awaited HTTP call takes: its timeout when it times out.
CallTime(out, limit) == IF out = "timeout" THEN limit ELSE ReplyTime

\* ------------------------------------------------------ repository host
Url(host, n) == [host |-> host, name |-> n]

\* task.lower() and the two re.sub of generate_repo_name, then strip('-'):
\* lower-case letters and digits stay, '_' becomes '-'.
clean_task(t) == IF t = MixedTask THEN "t-1" ELSE t

\* md5(f"{task}-{round_num}-{now}").hexdigest(), taken without collisions:
\* 32 digits that tell the hashed texts of the model apart from the first
\* 8 on.  One call per operation, so the operation stands for the instant.
TaskDigit(t) == CASE t = "t1" -> "1" [] t = "t2" -> "2" [] t = MixedTask -> "3" [] OTHER -> "a"
hexdigest(t, rd, now) ==
  TaskDigit(t) \o ToString(rd) \o "00000" \o ToString(now) \o "000000000000000000000000"

\* generate_repo_name: f"{clean_task}-{task_hash}"[:100], task_hash the first
\* 8 digits of the hash.
generate_repo_name(t, rd, now) ==
  LET whole == clean_task(t) \o "-" \o SubSeq(hexdigest(t, rd, now), 1, 8)
  IN IF Len(whole) > NAME_LIMIT THEN SubSeq(whole, 1, NAME_LIMIT) ELSE whole

\* A repository: the files of its branches and its commits, oldest first.
NoRepo == [files |-> <<>>, commits |-> <<>>]

\* One commit: the PyGithub call that made it and the path it wrote.
Commit(call, path) == [call |-> call, path |-> path]

\* repo.create_file / repo.update_file of one file: the path holds the new
\* content, every other path is as before, and there is one more commit.
WriteFile(repo, f, call) ==
  [files |-> [n \in (DOMAIN repo.files) \cup {f.name} |->
                 IF n = f.name THEN f.content ELSE repo.files[n]],
   commits |-> Append(repo.commits, Commit(call, f.name))]

RECURSIVE WriteFiles(_, _, _)
\* The loop of create_github_repository over the first k files of an
\* artifact set, in order.
WriteFiles(repo, files, k) ==
  IF k = 0 THEN repo
  ELSE WriteFile(WriteFiles(repo, files, k - 1), files[k], "create_file")

\* The loop body of update_github_repository as it would be if it pushed the
\* new file as the whole tree of the commit.
UpdateOrCreate_replaces_tree(repo, f) ==
  [files |-> [n \in {f.name} |-> f.content],
   commits |-> Append(repo.commits, Commit("update_file", f.name))]

\* The loop body of update_github_repository: get_contents finds the file and
\* update_file rewrites it, or get_contents raises and create_file adds it.
UpdateOrCreate(repo, f) ==
  IF f.name \in DOMAIN repo.files
    THEN WriteFile(repo, f, "update_file")
    ELSE WriteFile(repo, f, "create_file")

RECURSIVE UpdateFiles(_, _, _)
\* The loop of update_github_repository over the first k files.
UpdateFiles(repo, files, k) ==
  IF k = 0 THEN repo
  ELSE UpdateOrCreate(UpdateFiles(repo, files, k - 1), files[k])

\* The serving strategies of create_github_repository, and what GitHub may do
\* with them: the set of strategies whose create_file it accepts.
PagesStrategies == {"docs", "gh-pages", "nojekyll"}
PagesOutcomes == SUBSET PagesStrategies

\* The nested try blocks as they would be if every strategy were tried
\* whatever the one before it did.
PagesTried_every_strategy(acc) == <<"docs", "gh-pages", "nojekyll">>

\* The strategies the nested try blocks go through when GitHub accepts acc:
\* docs/ first, the gh-pages branch in its except block, .nojekyll in the
\* except block of that.
PagesTried(acc) ==
  IF "docs" \in acc THEN <<"docs">>
  ELSE IF "gh-pages" \in acc THEN <<"docs", "gh-pages">>
  ELSE <<"docs", "gh-pages", "nojekyll">>

\* What the log keeps of the strategies tried, in order.
PagesLog(acc) ==
  [i \in 1..Len(PagesTried(acc)) |->
     PagesTried(acc)[i] \o (IF PagesTried(acc)[i] \in acc THEN "_ok" ELSE "_refused")]

\* The file a strategy creates.  `content` is the loop variable left by the
\* loop over files.items(), i.e. the content of the last file.
PagesFile(s, files) ==
  LET content == files[Len(files)].content IN
  CASE s = "docs" -> File("docs/index.html", content)
    [] s = "gh-pages" -> File("gh-pages:index.html", content)
    [] OTHER -> File(".nojekyll", Content("empty", <<>>, <<>>, ""))

RECURSIVE TryPages(_, _, _, _)
\* The first k strategies tried: an accepted create_file is in the
\* repository, a refused one raises into the next except block.
TryPages(repo, files, acc, k) ==
  IF k = 0 THEN repo
  ELSE LET before == TryPages(repo, files, acc, k - 1)
           s == PagesTried(acc)[k]
       IN IF s \in acc THEN WriteFile(before, PagesFile(s, files), "create_file")
          ELSE before

EnablePages(repo, files, acc) == TryPages(repo, files, acc, Len(PagesTried(acc)))

latest_commit(name, repo) == [name |-> name, n |-> Len(repo.commits)]

\* ------------------------------------------------- background operations
Upd(f, o, v) == [f EXCEPT ![o] = v]

\* The awaits an operation can be suspended in.
Suspended == {"ai_post", "modify_post", "pages_sleep", "notify_post", "retry_sleep"}

\* The await of an operation has ended and the rest of the coroutine is in
\* the ready queue of the event loop, behind whatever was queued before it.
Queued == {"notify_ready"}

\* The clocks once operation o has gone on to time e and has then held the
\* event loop for b seconds: the PyGithub calls are synchronous calls inside
\* coroutines, so no other coroutine runs meanwhile and the time of every
\* operation suspended in an await runs on.
Clock(o, e, b) ==
  /\ elapsed' = [p \in OpIds |->
                   IF p = o THEN e + b
                   ELSE IF pc[p] \in Suspended \cup Queued THEN elapsed[p] + b
                   ELSE elapsed[p]]
  /\ waited' = [p \in OpIds |->
                  IF p # o /\ pc[p] \in Suspended \cup Queued THEN waited[p] + b
                  ELSE waited[p]]

\* process_task_with_deadline as it would be with `except asyncio.TimeoutError`
\* alone: any other exception of the pipeline leaves it uncaught.
EndAfter_only_timeout_caught(o, how, e, b, lg) ==
  /\ pc' = Upd(pc, o, IF how \in {"failed_prerequisite", "failed_publish", "failed_generate"}
                        THEN "raised" ELSE "done")
  /\ outcome' = Upd(outcome, o, how)
  /\ Clock(o, e, b)
  /\ log' = Upd(log, o, lg)

\* The operation ends, after b seconds of synchronous calls: the return of
\* process_task_with_deadline.
EndAfter(o, how, e, b, lg) ==
  /\ pc' = Upd(pc, o, "done")
  /\ outcome' = Upd(outcome, o, how)
  /\ Clock(o, e, b)
  /\ log' = Upd(log, o, lg)

End(o, how, e, lg) == EndAfter(o, how, e, 0, lg)

\* The synchronous part of create_github_repository, up to asyncio.sleep(3).
\* gh says where GitHub refuses (k: the file it refuses), pg which serving
\* strategies it accepts, b how long the calls block (the time of
\* create_repo, the first request of the run).  lg is the log and e the
\* elapsed time so far.  create_repo is refused, whatever gh, when the
\* account has a repository of that name.
GhCreate == {"ok", "create_repo", "create_file"}
CreateRepository(o, out, files, lg, e, gh, k, pg, b) ==
  LET r == req[o]
      name == generate_repo_name(r.task, r.round, o)
      url == Url("github.com", name)
      lg2 == Append(lg, "create")
  IN
  /\ gen_out' = Upd(gen_out, o, out)
  /\ IF GeneratorRaises(out)
       THEN /\ End(o, "failed_generate", e, lg)
            /\ UNCHANGED <<repos, repo_info, app_files>>
     ELSE IF ~CONFIG.GITHUB_TOKEN \/ gh = "create_repo" \/ url \in DOMAIN repos
       THEN /\ EndAfter(o, "failed_publish", e, b, lg2)
            /\ app_files' = Upd(app_files, o, files)
            /\ UNCHANGED <<repos, repo_info>>
     ELSE IF gh = "create_file"
       THEN /\ EndAfter(o, "failed_publish", e, b, lg2)
            /\ app_files' = Upd(app_files, o, files)
            /\ repos' = (url :> WriteFiles(NoRepo, files, k - 1)) @@ repos
            /\ UNCHANGED repo_info
     ELSE /\ app_files' = Upd(app_files, o, files)
          /\ repos' = (url :> EnablePages(WriteFiles(NoRepo, files, Len(files)), files, pg))
                        @@ repos
          /\ repo_info' = Upd(repo_info, o,
               [repo_url |-> url, commit_sha |-> NoSha,
                pages_url |-> Url("github.io", name)])
          /\ pc' = Upd(pc, o, "pages_sleep")
          /\ Clock(o, e, b)
          /\ log' = Upd(log, o, lg2 \o PagesLog(pg))
          /\ UNCHANGED outcome

\* process_task_with_deadline starts a round-1 operation: process_round1 up to
\* the first suspension.  With no AIPIPE_API_KEY the generator returns the
\* fallback at once and the publisher runs in the same step.
process_round1(o, gh, k, pg, b) ==
  /\ pc[o] = "scheduled"
  /\ req[o].round = 1
  /\ IF CONFIG.AIPIPE_API_KEY
       THEN /\ pc' = Upd(pc, o, "ai_post")
            /\ log' = Upd(log, o, Append(log[o], "gen"))
            /\ UNCHANGED <<repos, elapsed, waited, gen_out, app_files, repo_info, outcome>>
       ELSE CreateRepository(o, "not_configured", generate_fallback_app(req[o]),
                             Append(log[o], "gen"), 0, gh, k, pg, b)
  /\ UNCHANGED <<instructor, receiver, CONFIG, tasks, req, ack, audit, round1_data, sent,
                 existing_code, update_url, attempts>>

\* The generator backend answers (or the call fails): the rest of
\* generate_app_with_ai, then create_github_repository up to its sleep.
generate_app_with_ai_returns(o, out, gh, k, pg, b) ==
  /\ pc[o] = "ai_post"
  /\ elapsed[o] + CallTime(out, AI_TIMEOUT) <= TASK_TIMEOUT
  /\ CreateRepository(o, out, generate_app_with_ai(req[o], out), log[o],
                      elapsed[o] + CallTime(out, AI_TIMEOUT), gh, k, pg, b)
  /\ UNCHANGED <<instructor, receiver, CONFIG, tasks, req, ack, audit, round1_data, sent,
                 existing_code, update_url, attempts>>

\* The payload as it would be with the round of process_round2 pasted into
\* process_round1.
TaskResponse_pasted_round(r, rd, info) ==
  [email |-> r.email, task |-> r.task, round |-> 2, nonce |-> r.nonce,
   repo_url |-> info.repo_url, commit_sha |-> info.commit_sha,
   pages_url |-> info.pages_url]

\* The payload as it would be if the submitter were taken from the
\* RoundRecord of the task id instead of the request.
TaskResponse_email_of_record(r, rd, info) ==
  [email |-> tasks[r.task].email, task |-> r.task, round |-> rd, nonce |-> r.nonce,
   repo_url |-> info.repo_url, commit_sha |-> info.commit_sha,
   pages_url |-> info.pages_url]

\* The TaskResponse of an operation: the request's identity, the round of
\* the pipeline that built it, and the PublishResult.
TaskResponse(r, rd, info) ==
  [email |-> r.email, task |-> r.task, round |-> rd, nonce |-> r.nonce,
   repo_url |-> info.repo_url, commit_sha |-> info.commit_sha,
   pages_url |-> info.pages_url]

\* The record as it would be with the pages address in the place of the
\* repository address.
RoundRecord_pages_address(r, info) ==
  [repo_url |-> info.pages_url, email |-> r.email, brief |-> r.brief]

\* The RoundRecord process_round1 writes.
RoundRecord(r, info) == [repo_url |-> info.repo_url, email |-> r.email, brief |-> r.brief]

\* What the callback did with a notification attempt.
NotifyOutcomes == {"200", "201", "500", "timeout"}

\* `if resp.status_code == 200` of send_evaluation.
AttemptSucceeded(out) == out = "200"

\* The loop as it would be with one attempt too many.
AttemptsRemain_one_more(attempt) == attempt < NOTIFY_ATTEMPTS

\* `for attempt in range(3)`: attempt (0-based) is followed by another one.
AttemptsRemain(attempt) == attempt + 1 < NOTIFY_ATTEMPTS

\* wait_for has returned: the total-time check that ends
\* process_task_with_deadline.
TotalTimeCheck(e) == IF e > MAX_PROCESSING_TIME THEN "deadline_missed" ELSE "completed"

\* process_round1 as it would be if it wrote the RoundRecord before the
\* publisher had returned its result.
create_github_repository_returns_after_store(o, ghc) ==
  /\ pc[o] = "pages_sleep"
  /\ elapsed[o] + PAGES_WAIT <= TASK_TIMEOUT
  /\ LET r == req[o]
         url == repo_info[o].repo_url
         info == [repo_info[o] EXCEPT !.commit_sha = latest_commit(url.name, repos[url])]
     IN
     /\ tasks' = [tasks EXCEPT ![r.task] = RoundRecord(r, info)]
     /\ IF ghc = "get_commits"
          THEN /\ End(o, "failed_publish", elapsed[o] + PAGES_WAIT, Append(log[o], "put"))
               /\ UNCHANGED <<repo_info, sent>>
          ELSE /\ repo_info' = Upd(repo_info, o, info)
               /\ sent' = Upd(sent, o, TaskResponse(r, 1, info))
               /\ pc' = Upd(pc, o, "notify_post")
               /\ Clock(o, elapsed[o] + PAGES_WAIT, 0)
               /\ log' = Upd(log, o, log[o] \o <<"put", "notify">>)
               /\ UNCHANGED outcome
  /\ UNCHANGED <<instructor, receiver, CONFIG, repos, req, ack, audit, gen_out, app_files, round1_data,
                 existing_code, update_url, attempts>>

\* The same step as it would be if process_round1 called send_evaluation
\* before the assignment to tasks[request.task]: the step reaches the POST
\* with the record still to be written.
create_github_repository_returns_notifies_first(o, ghc) ==
  /\ pc[o] = "pages_sleep"
  /\ elapsed[o] + PAGES_WAIT <= TASK_TIMEOUT
  /\ LET r == req[o]
         url == repo_info[o].repo_url
         info == [repo_info[o] EXCEPT !.commit_sha = latest_commit(url.name, repos[url])]
     IN
     IF ghc = "get_commits"
       THEN /\ End(o, "failed_publish", elapsed[o] + PAGES_WAIT, log[o])
            /\ UNCHANGED <<tasks, repo_info, sent>>
       ELSE /\ repo_info' = Upd(repo_info, o, info)
            /\ sent' = Upd(sent, o, TaskResponse(r, 1, info))
            /\ pc' = Upd(pc, o, "notify_post")
            /\ Clock(o, elapsed[o] + PAGES_WAIT, 0)
            /\ log' = Upd(log, o, Append(log[o], "notify"))
            /\ UNCHANGED <<tasks, outcome>>
  /\ UNCHANGED <<instructor, receiver, CONFIG, repos, req, ack, audit, gen_out, app_files, round1_data,
                 existing_code, update_url, attempts>>

\* asyncio.sleep(3) is over: the rest of create_github_repository (the latest
\* commit), then process_round1 writes the RoundRecord, builds the payload
\* and send_evaluation posts its first attempt.
create_github_repository_returns(o, ghc) ==
  /\ pc[o] = "pages_sleep"
  /\ elapsed[o] + PAGES_WAIT <= TASK_TIMEOUT
  /\ LET r == req[o]
         url == repo_info[o].repo_url
         info == [repo_info[o] EXCEPT !.commit_sha = latest_commit(url.name, repos[url])]
     IN
     IF ghc = "get_commits"
       THEN /\ End(o, "failed_publish", elapsed[o] + PAGES_WAIT, log[o])
            /\ UNCHANGED <<tasks, repo_info, sent>>
       ELSE /\ repo_info' = Upd(repo_info, o, info)
            /\ tasks' = [tasks EXCEPT ![r.task] = RoundRecord(r, info)]
            /\ sent' = Upd(sent, o, TaskResponse(r, 1, info))
            /\ pc' = Upd(pc, o, "notify_post")
            /\ Clock(o, elapsed[o] + PAGES_WAIT, 0)
            /\ log' = Upd(log, o, log[o] \o <<"put", "notify">>)
            /\ UNCHANGED outcome
  /\ UNCHANGED <<instructor, receiver, CONFIG, repos, req, ack, audit, gen_out, app_files, round1_data,
                 existing_code, update_url, attempts>>

\* send_evaluation as it would be if it raised after the last failed attempt:
\* process_task_with_deadline would log the round as failed.
send_evaluation_attempt_escalates(o, out) ==
  /\ pc[o] = "notify_post"
  /\ elapsed[o] + CallTime(out, NOTIFY_TIMEOUT) <= TASK_TIMEOUT
  /\ LET e == elapsed[o] + CallTime(out, NOTIFY_TIMEOUT)
         attempt == Len(attempts[o])
     IN
     /\ attempts' = Upd(attempts, o, Append(attempts[o], out))
     /\ IF AttemptSucceeded(out)
          THEN End(o, TotalTimeCheck(e), e, log[o])
          ELSE IF ~AttemptsRemain(attempt)
            THEN End(o, "failed_notify", e, log[o])
            ELSE /\ pc' = Upd(pc, o, "retry_sleep")
                 /\ Clock(o, e, 0)
                 /\ UNCHANGED <<log, outcome>>
  /\ UNCHANGED <<instructor, receiver, CONFIG, tasks, repos, req, ack, audit, gen_out, app_files,
                 round1_data, repo_info, sent, existing_code, update_url>>

\* A notification attempt ends (an answer, or the 10 s timeout): the rest of
\* the loop body of send_evaluation.  A 200 returns; otherwise the loop sleeps
\* before the next attempt, or gives up after the last one.  Either return
\* ends process_round1/2 and with it the operation.
send_evaluation_attempt(o, out) ==
  /\ pc[o] = "notify_post"
  /\ elapsed[o] + CallTime(out, NOTIFY_TIMEOUT) <= TASK_TIMEOUT
  /\ LET e == elapsed[o] + CallTime(out, NOTIFY_TIMEOUT)
         attempt == Len(attempts[o])
     IN
     /\ attempts' = Upd(attempts, o, Append(attempts[o], out))
     /\ IF AttemptSucceeded(out) \/ ~AttemptsRemain(attempt)
          THEN End(o, TotalTimeCheck(e), e, log[o])
          ELSE /\ pc' = Upd(pc, o, "retry_sleep")
               /\ Clock(o, e, 0)
               /\ UNCHANGED <<log, outcome>>
  /\ UNCHANGED <<instructor, receiver, CONFIG, tasks, repos, req, ack, audit, gen_out, app_files,
                 round1_data, repo_info, sent, existing_code, update_url>>

\* The same in two steps of the event loop.  A notification attempt ends (an
\* answer, or the 10 s timeout) within the stage limit: the future the
\* coroutine awaits is resolved and its continuation is put in the ready
\* queue.
send_evaluation_answered(o, out) ==
  /\ pc[o] = "notify_post"
  /\ elapsed[o] + CallTime(out, NOTIFY_TIMEOUT) <= TASK_TIMEOUT
  /\ attempts' = Upd(attempts, o, Append(attempts[o], out))
  /\ pc' = Upd(pc, o, "notify_ready")
  /\ Clock(o, elapsed[o] + CallTime(out, NOTIFY_TIMEOUT), 0)
  /\ UNCHANGED <<instructor, receiver, CONFIG, tasks, repos, req, ack, audit, log, gen_out, app_files,
                 round1_data, repo_info, sent, existing_code, update_url, outcome>>

\* The continuation runs, after whatever was in the ready queue before it:
\* the rest of the loop body of send_evaluation.  The timer of wait_for is
\* handled after the callbacks already queued, so a continuation that ends
\* the pipeline makes wait_for return its result, however late.
send_evaluation_resumes(o) ==
  /\ pc[o] = "notify_ready"
  /\ LET out == attempts[o][Len(attempts[o])]
         attempt == Len(attempts[o]) - 1
     IN
     IF AttemptSucceeded(out) \/ ~AttemptsRemain(attempt)
       THEN End(o, TotalTimeCheck(elapsed[o]), elapsed[o], log[o])
       ELSE /\ pc' = Upd(pc, o, "retry_sleep")
            /\ Clock(o, elapsed[o], 0)
            /\ UNCHANGED <<log, outcome>>
  /\ UNCHANGED <<instructor, receiver, CONFIG, tasks, repos, req, ack, audit, gen_out, app_files,
                 round1_data, repo_info, sent, existing_code, update_url, attempts>>

\* asyncio.sleep(delay) is over: the next attempt is posted.
send_evaluation_retry(o) ==
  /\ pc[o] = "retry_sleep"
  /\ elapsed[o] + RETRY_DELAY <= TASK_TIMEOUT
  /\ pc' = Upd(pc, o, "notify_post")
  /\ Clock(o, elapsed[o] + RETRY_DELAY, 0)
  /\ log' = Upd(log, o, Append(log[o], "notify"))
  /\ UNCHANGED <<instructor, receiver, CONFIG, tasks, repos, req, ack, audit, gen_out, app_files,
                 round1_data, repo_info, sent, existing_code, update_url, attempts,
                 outcome>>

\* get_existing_code_from_github: index.html of the repository, {} when the
\* repository cannot be read, an empty dict when index.html cannot.
FetchOutcomes == {"ok", "no_repo", "no_index"}
get_existing_code_from_github(url, fetch) ==
  IF fetch = "ok" /\ url \in DOMAIN repos /\ "index.html" \in DOMAIN repos[url].files
    THEN << File("index.html", repos[url].files["index.html"]) >>
    ELSE <<>>

\* process_round2 as it would be without the `not in tasks` check.
process_round2_unchecked(o, fetch, b) ==
  /\ pc[o] = "scheduled"
  /\ req[o].round # 1
  /\ round1_data' = Upd(round1_data, o, tasks[req[o].task])
  /\ existing_code' = Upd(existing_code, o,
       get_existing_code_from_github(tasks[req[o].task].repo_url, fetch))
  /\ pc' = Upd(pc, o, "modify_post")
  /\ Clock(o, 0, b)
  /\ log' = Upd(log, o, log[o] \o <<"fetch", "modify">>)
  /\ UNCHANGED <<instructor, receiver, CONFIG, tasks, repos, req, ack, audit, gen_out, app_files,
                 repo_info, sent, update_url, attempts, outcome>>

\* process_round2 as it would be if it took the record out of the round
\* store (tasks.pop) instead of reading it.
process_round2_takes_record(o, fetch, b) ==
  /\ pc[o] = "scheduled"
  /\ req[o].round # 1
  /\ LET r == req[o] IN
     IF tasks[r.task] = NoRecord
       THEN /\ End(o, "failed_prerequisite", 0, log[o])
            /\ UNCHANGED <<tasks, round1_data, existing_code>>
       ELSE /\ round1_data' = Upd(round1_data, o, tasks[r.task])
            /\ tasks' = [tasks EXCEPT ![r.task] = NoRecord]
            /\ existing_code' = Upd(existing_code, o,
                 get_existing_code_from_github(tasks[r.task].repo_url, fetch))
            /\ pc' = Upd(pc, o, "modify_post")
            /\ Clock(o, 0, b)
            /\ log' = Upd(log, o, log[o] \o <<"fetch", "modify">>)
            /\ UNCHANGED outcome
  /\ UNCHANGED <<instructor, receiver, CONFIG, repos, req, ack, audit, gen_out, app_files,
                 repo_info, sent, update_url, attempts>>

\* process_round2 as it would be if get_existing_code_from_github let its
\* exceptions out: modify_existing_app, and with it the round, would end there.
process_round2_fetch_raises(o, fetch, b) ==
  /\ pc[o] = "scheduled"
  /\ req[o].round # 1
  /\ LET r == req[o] IN
     IF tasks[r.task] = NoRecord
       THEN /\ End(o, "failed_prerequisite", 0, log[o])
            /\ UNCHANGED <<round1_data, existing_code>>
     ELSE IF fetch # "ok"
       THEN /\ EndAfter(o, "failed_generate", 0, b, Append(log[o], "fetch"))
            /\ round1_data' = Upd(round1_data, o, tasks[r.task])
            /\ UNCHANGED existing_code
       ELSE /\ round1_data' = Upd(round1_data, o, tasks[r.task])
            /\ existing_code' = Upd(existing_code, o,
                 get_existing_code_from_github(tasks[r.task].repo_url, fetch))
            /\ pc' = Upd(pc, o, "modify_post")
            /\ Clock(o, 0, b)
            /\ log' = Upd(log, o, log[o] \o <<"fetch", "modify">>)
            /\ UNCHANGED outcome
  /\ UNCHANGED <<instructor, receiver, CONFIG, tasks, repos, req, ack, audit, gen_out, app_files,
                 repo_info, sent, update_url, attempts>>

\* process_task_with_deadline starts an operation of any other round:
\* process_round2 up to the first suspension, the generator call of
\* modify_existing_app.
process_round2(o, fetch, b) ==
  /\ pc[o] = "scheduled"
  /\ req[o].round # 1
  /\ LET r == req[o] IN
     IF tasks[r.task] = NoRecord
       THEN /\ End(o, "failed_prerequisite", 0, log[o])
            /\ UNCHANGED <<round1_data, existing_code>>
       ELSE /\ round1_data' = Upd(round1_data, o, tasks[r.task])
            /\ existing_code' = Upd(existing_code, o,
                 get_existing_code_from_github(tasks[r.task].repo_url, fetch))
            /\ pc' = Upd(pc, o, "modify_post")
            /\ Clock(o, 0, b)
            /\ log' = Upd(log, o, log[o] \o <<"fetch", "modify">>)
            /\ UNCHANGED outcome
  /\ UNCHANGED <<instructor, receiver, CONFIG, tasks, repos, req, ack, audit, gen_out, app_files,
                 repo_info, sent, update_url, attempts>>

\* The generator backend answers the modify request (or the call fails): the
\* rest of modify_existing_app, then update_github_repository, the payload and
\* the first notification attempt.  Anything but a 200 raises.
GhUpdate == {"ok", "get_repo", "write_file", "get_commits"}

\* update_github_repository as it would be if it named the repository afresh,
\* as create_github_repository does.
UpdateTarget_fresh_name(o) ==
  Url("github.com", generate_repo_name(req[o].task, req[o].round, o))

\* `repo_url = tasks[request.task]["repo_url"]` of update_github_repository.
UpdateTarget(o) == tasks[req[o].task].repo_url

modify_existing_app_returns(o, out, gh, k, b) ==
  /\ pc[o] = "modify_post"
  /\ elapsed[o] + CallTime(out, AI_TIMEOUT) <= TASK_TIMEOUT
  /\ gen_out' = Upd(gen_out, o, out)
  /\ LET r == req[o]
         e == elapsed[o] + CallTime(out, AI_TIMEOUT)
         files == modified_files(r, round1_data[o])
         url == UpdateTarget(o)
         lg == Append(log[o], "update")
         old == IF url \in DOMAIN repos THEN repos[url] ELSE NoRepo
         repo == UpdateFiles(old, files, Len(files))
         info == [repo_url |-> url, commit_sha |-> latest_commit(url.name, repo),
                  pages_url |-> Url("github.io", url.name)]
     IN
     IF ModifyRaises(out)
       THEN /\ End(o, "failed_generate", e, log[o])
            /\ UNCHANGED <<repos, app_files, repo_info, sent, update_url>>
     ELSE /\ app_files' = Upd(app_files, o, files)
          /\ update_url' = Upd(update_url, o, url)
          /\ IF gh = "get_repo" \/ url \notin DOMAIN repos
               THEN /\ EndAfter(o, "failed_publish", e, b, lg)
                    /\ UNCHANGED <<repos, repo_info, sent>>
             ELSE IF gh = "write_file"
               THEN /\ EndAfter(o, "failed_publish", e, b, lg)
                    /\ repos' = [repos EXCEPT ![url] = UpdateFiles(old, files, k - 1)]
                    /\ UNCHANGED <<repo_info, sent>>
             ELSE IF gh = "get_commits"
               THEN /\ EndAfter(o, "failed_publish", e, b, lg)
                    /\ repos' = [repos EXCEPT ![url] = repo]
                    /\ UNCHANGED <<repo_info, sent>>
             ELSE /\ repos' = [repos EXCEPT ![url] = repo]
                  /\ repo_info' = Upd(repo_info, o, info)
                  /\ sent' = Upd(sent, o, TaskResponse(r, 2, info))
                  /\ pc' = Upd(pc, o, "notify_post")
                  /\ Clock(o, e, b)
                  /\ log' = Upd(log, o, Append(lg, "notify"))
                  /\ UNCHANGED outcome
  /\ UNCHANGED <<instructor, receiver, CONFIG, tasks, req, ack, audit, round1_data, existing_code, attempts>>

\* How long each await can take.
AwaitTimes(p) ==
  CASE p \in {"ai_post", "modify_post"} -> {ReplyTime, AI_TIMEOUT}
    [] p = "pages_sleep" -> {PAGES_WAIT}
    [] p = "notify_post" -> {ReplyTime, NOTIFY_TIMEOUT}
    [] OTHER -> {RETRY_DELAY}

Max(a, b) == IF a > b THEN a ELSE b

\* asyncio.wait_for cancels the pipeline in the await it is suspended in when
\* TASK_TIMEOUT passes first; process_task_with_deadline logs and returns.
stage_timeout(o) ==
  /\ pc[o] \in Suspended
  /\ \E d \in AwaitTimes(pc[o]) : elapsed[o] + d > TASK_TIMEOUT
  /\ End(o, "timeout", Max(elapsed[o], TASK_TIMEOUT), log[o])
  /\ UNCHANGED <<instructor, receiver, CONFIG, tasks, repos, req, ack, audit, gen_out, app_files,
                 round1_data, repo_info, sent, existing_code, update_url, attempts>>

\* The steps of the server, for the operation slots OPS, with the rounds of
\* the submissions, the answers of the generator backend and of the callback,
\* and the serving strategies drawn from the given sets.
Submit(OPS, RD) ==
  \E o \in OPS, dbok \in BOOLEAN : \E r \in TaskRequest(o, RD) : handle_task(o, r, dbok)

Round1(OPS, AO, PG) ==
  \/ \E o \in OPS, gh \in GhCreate, pg \in PG, b \in GithubTimes :
       process_round1(o, gh, RefusedFile, pg, b)
  \/ \E o \in OPS, out \in AO, gh \in GhCreate, pg \in PG, b \in GithubTimes :
       generate_app_with_ai_returns(o, out, gh, RefusedFile, pg, b)
  \/ \E o \in OPS, ghc \in {"ok", "get_commits"} : create_github_repository_returns(o, ghc)

Round2(OPS, AO) ==
  \/ \E o \in OPS, fetch \in FetchOutcomes, b \in GithubTimes : process_round2(o, fetch, b)
  \/ \E o \in OPS, out \in AO, gh \in GhUpdate, b \in GithubTimes :
       modify_existing_app_returns(o, out, gh, RefusedFile, b)

Notifier(OPS, NO) ==
  \/ \E o \in OPS, out \in NO : send_evaluation_attempt(o, out)
  \/ \E o \in OPS, out \in NO : send_evaluation_answered(o, out)
  \/ \E o \in OPS : send_evaluation_resumes(o)
  \/ \E o \in OPS : send_evaluation_retry(o)

Deadline(OPS) == \E o \in OPS : stage_timeout(o)

\* The pipeline under concurrent submissions of rounds 1 and 2, against a
\* generator backend that answers with code, answers with an error status or
\* hangs, and a callback that answers 200 or hangs.
Background(OPS) ==
  \/ Round1(OPS, {"html", "status", "timeout"}, {PagesStrategies})
  \/ Round2(OPS, {"html", "status", "timeout"})
  \/ Notifier(OPS, {"200", "timeout"})
  \/ Deadline(OPS)

Next == Submit(OpIds, {1, 2}) \/ Background(OpIds)

Spec == Init /\ [][Next]_vars

\* The event loop runs every operation that can go on: each awaited call and
\* sleep ends (an answer, its own timeout, or the stage timeout).
FairSpec == Spec /\ \A o \in OpIds : WF_vars(Background({o}))

\* One round-1 operation, against every answer of the generator backend, of
\* GitHub's serving strategies and of the callback.
Round1Background ==
  \/ Round1({1}, AiOutcomes, PagesOutcomes)
  \/ Notifier({1}, NotifyOutcomes)
  \/ Deadline({1})

Round1Next == Submit({1}, {1}) \/ Round1Background

Round1Spec == Init /\ [][Round1Next]_vars

\* The same, with the event loop running the operation whenever it can go on.
FairRound1Spec == Round1Spec /\ WF_vars(Round1Background)

\* The repositories are public repositories of the token's account, and a
\* file can be deleted from one between the rounds: the case for which
\* update_github_repository has its `except GithubException`, "File doesn't
\* exist, create it".
file_deleted(url, n) ==
  /\ url \in DOMAIN repos
  /\ n \in DOMAIN repos[url].files
  /\ repos' = [repos EXCEPT ![url] =
       [files |-> [m \in (DOMAIN repos[url].files) \ {n} |-> repos[url].files[m]],
        commits |-> Append(repos[url].commits, Commit("delete_file", n))]]
  /\ UNCHANGED <<instructor, receiver, CONFIG, tasks, req, ack, audit, pc, elapsed, log, gen_out, app_files,
                 round1_data, repo_info, sent, existing_code, update_url, attempts,
                 outcome, waited>>

\* A round-1 submission and a round-2 submission, in this order of arrival,
\* against a generator backend that answers with code or with an error
\* status and a callback that answers 200 or 500, on repositories that can
\* lose their README.md between the rounds.
TwoRoundsBackground ==
  \/ Round1({1}, {"html"}, {PagesStrategies})
  \/ Round2({2}, {"html", "status"})
  \/ Notifier({1, 2}, {"200", "500"})
  \/ Deadline({1, 2})

TwoRoundsNext ==
  \/ Submit({1}, {1})
  \/ Submit({2}, {2})
  \/ TwoRoundsBackground
  \/ \E url \in DOMAIN repos : file_deleted(url, "README.md")

TwoRoundsSpec == Init /\ [][TwoRoundsNext]_vars

\* The same, with the event loop running the operations whenever one can go
\* on.
FairTwoRoundsSpec == TwoRoundsSpec /\ WF_vars(TwoRoundsBackground)

\* generate_fallback_app on its own: one request per slot, with every brief,
\* check list and task id of the sets below, and the call of the function on
\* the request of a slot.
FallbackBriefs ==
  { <<"build", "a", "Calculator">>, <<"solve", "a", "CAPTCHA">>,
    <<"Markdown", "to", "HTML">>, <<"a", "CAPTCHA", "Calculator">>,
    <<"CAPTCHA", "in", "Markdown">>,
    <<"publish", "a", "page">> }
FallbackChecks == { <<"page loads">>, <<"page loads", "feature works">> }
FallbackRequests(o) ==
  { [task |-> t, round |-> 1, secret |-> "hvk1995", email |-> EmailOf(o),
     nonce |-> NonceOf(o), brief |-> b, checks |-> c] :
       t \in TaskIds, b \in FallbackBriefs, c \in FallbackChecks }

FallbackInit ==
  /\ CONFIG \in [SECRET : {"hvk1995"}, GITHUB_TOKEN : BOOLEAN, AIPIPE_API_KEY : {FALSE}]
  /\ tasks = [t \in AllTaskIds |-> NoRecord]
  /\ repos = <<>>
  /\ req \in {f \in [OpIds -> UNION {FallbackRequests(o) : o \in OpIds}] :
                 \A o \in OpIds : f[o] \in FallbackRequests(o)}
  /\ ack = [o \in OpIds |-> Acknowledgment(req[o])]
  /\ audit = [o \in OpIds |-> "failed"]
  /\ pc = [o \in OpIds |-> "scheduled"]
  /\ elapsed = [o \in OpIds |-> 0]
  /\ log = [o \in OpIds |-> <<"ack">>]
  /\ gen_out = [o \in OpIds |-> "none"]
  /\ app_files = [o \in OpIds |-> <<>>]
  /\ round1_data = [o \in OpIds |-> NoRecord]
  /\ repo_info = [o \in OpIds |-> NoInfo]
  /\ sent = [o \in OpIds |-> NoPayload]
  /\ existing_code = [o \in OpIds |-> <<>>]
  /\ update_url = [o \in OpIds |-> NoUrl]
  /\ attempts = [o \in OpIds |-> <<>>]
  /\ outcome = [o \in OpIds |-> "none"]
  /\ waited = [o \in OpIds |-> 0]
  /\ InstructorInit
  /\ ReceiverInit

\* `return generate_fallback_app(request)` of generate_app_with_ai.
generate_fallback_app_returns(o) ==
  /\ pc[o] = "scheduled"
  /\ gen_out[o] = "none"
  /\ gen_out' = Upd(gen_out, o, "not_configured")
  /\ app_files' = Upd(app_files, o, generate_fallback_app(req[o]))
  /\ log' = Upd(log, o, Append(log[o], "gen"))
  /\ UNCHANGED <<instructor, receiver, CONFIG, tasks, repos, req, ack, audit, pc, elapsed, round1_data,
                 repo_info, sent, existing_code, update_url, attempts, outcome, waited>>

FallbackNext == \E o \in OpIds : generate_fallback_app_returns(o)

FallbackSpec == FallbackInit /\ [][FallbackNext]_vars

\* A server that has run round 1 of task t1 before: the record of that
\* operation is in the round store and its repository on GitHub.  Round 2 of
\* the task id arrives, and then round 1 of the task id once more.
EarlierRequest ==
  [task |-> "t1", round |-> 1, secret |-> "hvk1995", email |-> EmailOf(0),
   nonce |-> NonceOf(0), brief |-> BriefOf(1), checks |-> ChecksOf(1)]
EarlierUrl == Url("github.com", generate_repo_name("t1", 1, 0))
EarlierRepository ==
  LET files == generate_fallback_app(EarlierRequest)
  IN EnablePages(WriteFiles(NoRepo, files, Len(files)), files, PagesStrategies)

RerunInit ==
  /\ CONFIG \in [SECRET : {"hvk1995"}, GITHUB_TOKEN : {TRUE}, AIPIPE_API_KEY : BOOLEAN]
  /\ tasks = [t \in AllTaskIds |->
                IF t = "t1"
                  THEN RoundRecord(EarlierRequest, [NoInfo EXCEPT !.repo_url = EarlierUrl])
                  ELSE NoRecord]
  /\ repos = (EarlierUrl :> EarlierRepository)
  /\ req = [o \in OpIds |-> NoReq]
  /\ ack = [o \in OpIds |-> NoAck]
  /\ audit = [o \in OpIds |-> "none"]
  /\ pc = [o \in OpIds |-> "idle"]
  /\ elapsed = [o \in OpIds |-> 0]
  /\ log = [o \in OpIds |-> <<>>]
  /\ gen_out = [o \in OpIds |-> "none"]
  /\ app_files = [o \in OpIds |-> <<>>]
  /\ round1_data = [o \in OpIds |-> NoRecord]
  /\ repo_info = [o \in OpIds |-> NoInfo]
  /\ sent = [o \in OpIds |-> NoPayload]
  /\ existing_code = [o \in OpIds |-> <<>>]
  /\ update_url = [o \in OpIds |-> NoUrl]
  /\ attempts = [o \in OpIds |-> <<>>]
  /\ outcome = [o \in OpIds |-> "none"]
  /\ waited = [o \in OpIds |-> 0]
  /\ InstructorInit
  /\ ReceiverInit

RerunNext ==
  \/ Submit({1}, {2})
  \/ Submit({2}, {1})
  \/ Round2({1}, {"html", "status"})
  \/ Round1({2}, {"html", "status"}, {PagesStrategies})
  \/ Notifier({1, 2}, {"200", "500"})
  \/ Deadline({1, 2})

RerunSpec == RerunInit /\ [][RerunNext]_vars

\* Two submissions of any round of Rounds: `round: int` of TaskRequest takes
\* every integer.
AnyRoundNext == Submit({1, 2}, Rounds) \/ Background({1, 2})

AnyRoundSpec == Init /\ [][AnyRoundNext]_vars

\* Round 1 of a task id with every brief of FallbackBriefs, against every
\* answer of the generator backend, and round 2 of the task id against every
\* answer of it.
ArtifactRequests(o) ==
  { [task |-> "t1", round |-> 1, secret |-> "hvk1995", email |-> EmailOf(o),
     nonce |-> NonceOf(o), brief |-> b, checks |-> ChecksOf(1)] : b \in FallbackBriefs }

ArtifactsNext ==
  \/ \E r \in ArtifactRequests(1) : handle_task(1, r, TRUE)
  \/ Submit({2}, {2})
  \/ Round1({1}, AiOutcomes, {PagesStrategies})
  \/ Round2({2}, AiOutcomes)
  \/ Notifier({1, 2}, {"200", "500"})
  \/ Deadline({1, 2})

ArtifactsSpec == Init /\ [][ArtifactsNext]_vars

\* Round 1 of a task id submitted twice, the task id being one of 100
\* characters or one that the cleaning changes.
ResubmitRequests(o) ==
  { [task |-> t, round |-> 1, secret |-> s, email |-> EmailOf(o), nonce |-> NonceOf(o),
     brief |-> BriefOf(1), checks |-> ChecksOf(1)] :
       t \in {LongTask, MixedTask}, s \in Secrets }

ResubmitNext ==
  \/ \E o \in {1, 2}, dbok \in BOOLEAN : \E r \in ResubmitRequests(o) : handle_task(o, r, dbok)
  \/ Round1({1, 2}, {"html", "status"}, {PagesStrategies})
  \/ Notifier({1, 2}, {"200", "500"})
  \/ Deadline({1, 2})

ResubmitSpec == Init /\ [][ResubmitNext]_vars

\* ------------------------------------------------------------ properties
Has(lg, ev) == \E i \in 1..Len(lg) : lg[i] = ev
\* Every ev2 of the log has an ev1 before it.
Precedes(lg, ev1, ev2) ==
  \A j \in 1..Len(lg) : lg[j] = ev2 => \E i \in 1..(j - 1) : lg[i] = ev1
Count(lg, ev) == Cardinality({i \in 1..Len(lg) : lg[i] = ev})
ValidSecret(o) == req[o] # NoReq /\ req[o].secret = CONFIG.SECRET

\* C1: for a round-1 submission with a valid secret, no generator or
\* publisher call of its operation precedes its acknowledgment.
C1_AckBeforeWork ==
  \A o \in OpIds :
    (ValidSecret(o) /\ req[o].round = 1) =>
      /\ Precedes(log[o], "ack", "gen")
      /\ Precedes(log[o], "ack", "create")
      /\ (Has(log[o], "gen") \/ Has(log[o], "create")) => ack[o].status = "accepted"

C1_Witness ==
  \E o \in OpIds :
    /\ ValidSecret(o) /\ req[o].round = 1 /\ ack[o].status = "accepted"
    /\ Has(log[o], "gen") /\ Has(log[o], "create")

\* C2: a submission whose secret differs from the configured one is rejected
\* in the handler and has no other effect: nothing is scheduled, no audit
\* write is attempted, the round store and the repositories are as before,
\* and its slot never makes a generator, publisher or notifier call.
C2_BadSecretNoEffect ==
  [][\A o \in OpIds :
       (req'[o] # NoReq /\ req'[o].secret # CONFIG.SECRET) =>
         /\ ack'[o].status = "rejected"
         /\ pc'[o] = "rejected"
         /\ audit'[o] = "none"
         /\ log'[o] = <<>>
         /\ attempts'[o] = <<>>
         /\ sent'[o] = NoPayload
         /\ outcome'[o] = "none"
         /\ (req[o] = NoReq => tasks' = tasks /\ repos' = repos)]_vars

C2_Witness ==
  \E o, o2 \in OpIds : ack[o].status = "rejected" /\ ack[o2].status = "accepted" /\ pc[o2] = "done"

\* C3: a round-2 execution that finds no record of its task in the round
\* store ends at once with the missing-prerequisite failure, and an
\* operation that ended so has made no fetch, generator, publisher or
\* notifier call.
NoRound2Call(o) ==
  /\ ~Has(log[o], "fetch") /\ ~Has(log[o], "modify") /\ ~Has(log[o], "update")
  /\ ~Has(log[o], "gen") /\ ~Has(log[o], "create") /\ ~Has(log[o], "notify")
  /\ attempts[o] = <<>>
  /\ sent[o] = NoPayload

C3_MissingPrerequisite ==
  /\ [](\A o \in OpIds : outcome[o] = "failed_prerequisite" => pc[o] = "done" /\ NoRound2Call(o))
  /\ [][\A o \in OpIds :
          (pc[o] = "scheduled" /\ req[o].round # 1 /\ tasks[req[o].task] = NoRecord
             /\ pc'[o] # "scheduled")
            => outcome'[o] = "failed_prerequisite"]_vars

C3_Witness ==
  \E o \in OpIds : outcome[o] = "failed_prerequisite" /\ req[o].round = 2

\* C4: send_evaluation makes at most 3 attempts; an attempt answered 200 is
\* the last one; and it returns only after a 200 or after exactly 3 failed
\* attempts: twice failed and then answered 200 is 3 attempts and a success,
\* always failed is 3 attempts and a failure.
Returned(o) == outcome[o] \in {"completed", "deadline_missed"}
C4_RetryLaw ==
  \A o \in OpIds :
    LET n == Len(attempts[o]) IN
    /\ n <= 3
    /\ Count(log[o], "notify") <= 3
    /\ n <= Count(log[o], "notify")
    /\ \A i \in 1..(n - 1) : attempts[o][i] # "200"
    /\ Returned(o) =>
         /\ n >= 1 /\ n = Count(log[o], "notify")
         /\ attempts[o][n] = "200" \/ n = 3

C4_Witness ==
  \E o \in OpIds : Returned(o) /\ attempts[o] = <<"500", "timeout", "200">>

C4_WitnessAllFail ==
  \E o \in OpIds : Returned(o) /\ attempts[o] = <<"500", "timeout", "500">>

\* C5: an operation that ended in the stage timeout has made no notifier
\* call.
C5_NoNotifyOnStageTimeout ==
  \A o \in OpIds : outcome[o] = "timeout" => attempts[o] = <<>>

\* C6: an operation whose publisher call failed has made no notification
\* attempt and built no payload, and in round 1 it has written no
\* RoundRecord.
C6_PublishFailureAborts ==
  \A o \in OpIds :
    outcome[o] = "failed_publish" =>
      /\ ~Has(log[o], "notify")
      /\ attempts[o] = <<>>
      /\ sent[o] = NoPayload
      /\ req[o].round = 1 =>
           ~Has(log[o], "put") /\ tasks[req[o].task].email # req[o].email

C6_Witness ==
  \E o \in OpIds :
    /\ outcome[o] = "failed_publish" /\ req[o].round = 1
    /\ repo_info[o].repo_url \in DOMAIN repos

\* C7: in round 1 no answer of the generator backend ends the round: for
\* every failure of the backend the operation holds the fallback artifact
\* set and has gone on to the publisher.
GeneratorFailures == {"not_configured", "unexpected", "status", "neterr", "timeout"}
C7_Round1GeneratorNeverFatal ==
  \A o \in OpIds :
    req[o].round = 1 =>
      /\ outcome[o] # "failed_generate"
      /\ gen_out[o] \in GeneratorFailures =>
           app_files[o] = generate_fallback_app(req[o]) /\ Has(log[o], "create")

C7_Witness ==
  \E o \in OpIds :
    /\ req[o].round = 1 /\ gen_out[o] = "timeout"
    /\ app_files[o] = generate_fallback_app(req[o])
    /\ outcome[o] = "completed"

\* C8: in round 2 a failure of the generator backend does not end the round
\* with a failure.
C8_Round2GeneratorNeverFatal ==
  \A o \in OpIds :
    (req[o].round = 2 /\ gen_out[o] \in {"status", "neterr", "timeout"}) =>
      outcome[o] # "failed_generate"

\* C9: a round-2 operation never makes a create call and creates no
\* repository, and the repository its update call names and writes is the
\* one the round store records for its task at that moment.
C9_Round2UpdatesRecordedRepo ==
  [][\A o \in OpIds :
       req[o].round = 2 =>
         /\ ~Has(log'[o], "create")
         /\ Count(log'[o], "update") > Count(log[o], "update") =>
              /\ tasks[req[o].task] # NoRecord
              /\ update_url'[o] = tasks[req[o].task].repo_url
              /\ DOMAIN repos' = DOMAIN repos
              /\ \A u \in DOMAIN repos : u # tasks[req[o].task].repo_url => repos'[u] = repos[u]]_vars

C9_Witness ==
  \E o \in OpIds :
    /\ req[o].round = 2 /\ Has(log[o], "update") /\ outcome[o] = "completed"
    /\ update_url[o] = tasks[req[o].task].repo_url
    /\ repos[update_url[o]].files["README.md"].kind = "updated_readme"

\* C10: an accepted round-1 submission whose publisher create succeeds and
\* whose stage timeout does not pass leads to a notification whose payload
\* carries the task of the submission and round 1.
Notified(o) ==
  /\ Has(log[o], "notify")
  /\ sent[o].task = req[o].task
  /\ sent[o].round = 1
C10_Round1Notifies ==
  \A o \in OpIds :
    (ack[o].status = "accepted" /\ req[o].round = 1)
      ~> (Notified(o) \/ outcome[o] \in {"failed_publish", "timeout"})

C10_Witness ==
  \E o \in OpIds : ack[o].status = "accepted" /\ req[o].round = 1 /\ Notified(o)

\* C11: update_github_repository merges.  On the step that makes the update
\* call, no file of the repository is deleted, a file whose name is not in
\* the new artifact set keeps its content, no other name appears, and when
\* the call succeeds every artifact is in the repository with its new
\* content, written by update_file when the name was there before and by
\* create_file otherwise.
Names(files) == {files[i].name : i \in 1..Len(files)}
UpdateCalled(o) == req[o].round # 1 /\ Count(log'[o], "update") > Count(log[o], "update")
MergeCommits(before, files) ==
  [i \in 1..Len(files) |->
     Commit(IF files[i].name \in DOMAIN before.files THEN "update_file" ELSE "create_file",
            files[i].name)]
C11_UpdateMerges ==
  [][\A o \in OpIds :
       (UpdateCalled(o) /\ update_url'[o] \in DOMAIN repos) =>
         LET url == update_url'[o]
             before == repos[url]
             after == repos'[url]
             files == app_files'[o]
         IN
         /\ DOMAIN before.files \subseteq DOMAIN after.files
         /\ DOMAIN after.files \subseteq DOMAIN before.files \cup Names(files)
         /\ \A n \in DOMAIN before.files \ Names(files) : after.files[n] = before.files[n]
         /\ pc'[o] = "notify_post" =>
              /\ \A i \in 1..Len(files) : after.files[files[i].name] = files[i].content
              /\ after.commits = before.commits \o MergeCommits(before, files)]_vars

C11_Witness ==
  \E o \in OpIds :
    /\ req[o].round = 2 /\ pc[o] = "notify_post" /\ update_url[o] \in DOMAIN repos
    /\ LET repo == repos[update_url[o]]
           n == Len(repo.commits)
       IN /\ n >= 2
          /\ repo.commits[n - 1] = Commit("update_file", "index.html")
          /\ repo.commits[n] = Commit("create_file", "README.md")
          /\ repo.files["README.md"].kind = "updated_readme"
          /\ repo.files["LICENSE"] = generate_mit_license

\* C12: merge law.  Once a round-2 operation has updated the repository a
\* round-1 operation created (and no file was deleted from it), a fetch of
\* that repository returns every file of the round-1 artifact set, with the
\* content of the round-2 artifact of that name if there is one and its
\* round-1 content otherwise.
Lookup(files, n) == (CHOOSE i \in 1..Len(files) : files[i].name = n)
Updated(o2, o1) ==
  /\ req[o1].round = 1 /\ req[o2].round = 2
  /\ repo_info[o1].repo_url \in DOMAIN repos
  /\ sent[o2] # NoPayload
  /\ sent[o2].repo_url = repo_info[o1].repo_url
  /\ \A i \in 1..Len(repos[repo_info[o1].repo_url].commits) :
       repos[repo_info[o1].repo_url].commits[i].call # "delete_file"
C12_MergeLaw ==
  \A o1, o2 \in OpIds :
    Updated(o2, o1) =>
      LET fetched == get_existing_code_from_github(repo_info[o1].repo_url, "ok")
          created == app_files[o1]
          updated == app_files[o2]
      IN \A i \in 1..Len(created) :
           LET n == created[i].name IN
           /\ n \in Names(fetched)
           /\ fetched[Lookup(fetched, n)].content =
                IF n \in Names(updated) THEN updated[Lookup(updated, n)].content
                ELSE created[i].content

\* C13: when all three attempts of send_evaluation have failed the operation
\* has returned (or is about to: the rest of send_evaluation is queued) as
\* completed or late, not as failed, with its payload's repository
\* published and, in round 1, its RoundRecord in the round store; and the
\* step of the last failed attempt changes neither the round store nor the
\* repositories and makes no further call.
AllAttemptsFailed(att) ==
  Len(att) = NOTIFY_ATTEMPTS /\ \A i \in 1..Len(att) : ~AttemptSucceeded(att[i])
C13_NotificationFailureNotEscalated ==
  /\ [](\A o \in OpIds :
          AllAttemptsFailed(attempts[o]) =>
            /\ \/ pc[o] = "done" /\ Returned(o)
               \/ pc[o] \in Queued /\ outcome[o] = "none"
            /\ sent[o].repo_url \in DOMAIN repos
            /\ req[o].round = 1 => tasks[req[o].task] = RoundRecord(req[o], repo_info[o]))
  /\ [][\A o \in OpIds :
          (AllAttemptsFailed(attempts'[o]) /\ ~AllAttemptsFailed(attempts[o])) =>
            tasks' = tasks /\ repos' = repos /\ log'[o] = log[o]]_vars

C13_Witness ==
  \E o \in OpIds :
    /\ req[o].round = 1 /\ attempts[o] = <<"500", "500", "500">>
    /\ outcome[o] = "completed"
    /\ tasks[req[o].task] = RoundRecord(req[o], repo_info[o])
    /\ "index.html" \in DOMAIN repos[sent[o].repo_url].files

\* C14: every background operation that is started ends, and an operation in
\* which a failure was raised (missing prerequisite, generator error,
\* publisher error, stage timeout) has returned from
\* process_task_with_deadline with that failure as its logged outcome: none
\* is left raised outside it.
Failures == {"failed_prerequisite", "failed_generate", "failed_publish", "timeout"}
C14_OperationsTerminate ==
  /\ \A o \in OpIds : (pc[o] = "scheduled") ~> (pc[o] = "done")
  /\ [](\A o \in OpIds :
          /\ outcome[o] \in Failures => pc[o] = "done"
          /\ pc[o] = "done" <=> outcome[o] # "none"
          /\ pc[o] \in {"idle", "rejected", "scheduled", "done"} \cup Suspended \cup Queued)

C14_Witness ==
  /\ pc[1] = "done" /\ outcome[1] = "timeout"
  /\ pc[2] = "done" /\ outcome[2] = "failed_publish"

\* C15: the step that receives a submission with the configured secret
\* answers it as accepted and schedules its background operation, and no
\* other, whatever the audit write did; the audit write has then been
\* attempted.
Received(o) == req[o] = NoReq /\ req'[o] # NoReq
C15_AuditFailureDoesNotBlockAck ==
  [][\A o \in OpIds :
       (Received(o) /\ req'[o].secret = CONFIG.SECRET) =>
         /\ audit'[o] \in {"stored", "failed"}
         /\ ack'[o].status = "accepted"
         /\ pc'[o] = "scheduled"
         /\ \A p \in OpIds \ {o} : pc'[p] = pc[p] /\ ack'[p] = ack[p]]_vars

C15_Witness ==
  \E o \in OpIds :
    /\ audit[o] = "failed" /\ ack[o].status = "accepted"
    /\ pc[o] = "done" /\ outcome[o] = "completed"

\* C16: the fallback artifact set is a function of the brief, the checks and
\* the task id of the request: two requests that agree on the three get the
\* same file names with the same content, whatever else differs.
Generated(o) == gen_out[o] = "not_configured" /\ app_files[o] # <<>>
C16_FallbackDeterministic ==
  \A o1, o2 \in OpIds :
    (Generated(o1) /\ Generated(o2) /\ req[o1].brief = req[o2].brief
       /\ req[o1].checks = req[o2].checks /\ req[o1].task = req[o2].task) =>
      app_files[o1] = app_files[o2]

C16_Witness ==
  \E o1, o2 \in OpIds :
    /\ o1 # o2 /\ Generated(o1) /\ Generated(o2)
    /\ req[o1].brief = req[o2].brief /\ req[o1].checks = req[o2].checks
    /\ req[o1].task = req[o2].task /\ req[o1].nonce # req[o2].nonce
    /\ app_files[o1] = app_files[o2]
    /\ app_files[o1][1].content.kind = "captcha_html"

\* C16 as stated: the same brief alone gives the same artifact set.
C16_SameBriefSameArtifacts ==
  \A o1, o2 \in OpIds :
    (Generated(o1) /\ Generated(o2) /\ req[o1].brief = req[o2].brief) =>
      app_files[o1] = app_files[o2]

\* C17: no step of an operation of round 2 changes the round store, and no
\* step at all takes a record out of it: a task id that has a record keeps
\* having one.
Round2Step(o) ==
  /\ pc[o] \in {"scheduled"} \cup Suspended
  /\ req[o].round # 1
  /\ pc'[o] # pc[o]
C17_Round2LeavesRoundStore ==
  [][/\ \A o \in OpIds : Round2Step(o) => tasks' = tasks
     /\ \A t \in AllTaskIds : tasks[t] # NoRecord => tasks'[t] # NoRecord]_vars

C17_Witness ==
  \E o \in OpIds :
    /\ req[o].round = 2 /\ outcome[o] = "completed" /\ Has(log[o], "update")
    /\ round1_data[o] # NoRecord
    /\ tasks[req[o].task] = round1_data[o]

\* C18: single writer per key.  The record of a task id, once written, is
\* the same after every step.
C18_RecordWrittenOnce ==
  [][\A t \in AllTaskIds : tasks[t] # NoRecord => tasks'[t] = tasks[t]]_vars

\* C19: operations of different task ids do not take each other's time.  An
\* operation of a task id no other operation works on, whose clock is past
\* the stage limit when the stage timeout cuts it (so that it ends without
\* the calls and the payload that were still to come), is in an await in
\* which its own calls and awaits alone could pass the limit.
OwnTask(o) == \A p \in OpIds \ {o} : req[p].task # req[o].task
C19_OperationsIndependent ==
  [][\A o \in OpIds :
       (outcome[o] = "none" /\ outcome'[o] = "timeout" /\ OwnTask(o)
          /\ elapsed[o] > TASK_TIMEOUT) =>
         \E d \in AwaitTimes(pc[o]) : elapsed[o] - waited[o] + d > TASK_TIMEOUT]_vars

\* C20: a round-1 operation that calls the publisher's create is given a
\* name different from the name of the repository that an earlier round-1
\* operation of the same task id created.
CalledCreate(o) == req[o].round = 1 /\ CONFIG.GITHUB_TOKEN /\ Has(log[o], "create")
C20_RepoNamesDoNotCollide ==
  \A o1, o2 \in OpIds :
    (o1 # o2 /\ req[o1].round = 1 /\ repo_info[o1].repo_url \in DOMAIN repos
       /\ CalledCreate(o2) /\ req[o1].task = req[o2].task) =>
      generate_repo_name(req[o2].task, req[o2].round, o2) # repo_info[o1].repo_url.name

\* C21: the serving strategies are tried in the order docs/, gh-pages,
\* .nojekyll and the first one accepted is the last one tried: docs/ comes
\* right after the files of the repository, each later strategy right after
\* the refusal of the one before it, and a refusal is followed by the next
\* strategy.  Whatever the strategies did, all three refused included, the
\* step that tried them leaves the operation in the wait for the pages with
\* a PublishResult that has the pages address.
PagesEvent(ev) ==
  ev \in {"docs_ok", "docs_refused", "gh-pages_ok", "gh-pages_refused",
          "nojekyll_ok", "nojekyll_refused"}
StrategyOrder(lg) ==
  \A i \in 1..Len(lg) :
    /\ lg[i] \in {"docs_ok", "docs_refused"} => i > 1 /\ lg[i - 1] = "create"
    /\ lg[i] \in {"gh-pages_ok", "gh-pages_refused"} => i > 1 /\ lg[i - 1] = "docs_refused"
    /\ lg[i] \in {"nojekyll_ok", "nojekyll_refused"} => i > 1 /\ lg[i - 1] = "gh-pages_refused"
    /\ lg[i] = "docs_refused" => i < Len(lg) /\ lg[i + 1] \in {"gh-pages_ok", "gh-pages_refused"}
    /\ lg[i] = "gh-pages_refused" =>
         i < Len(lg) /\ lg[i + 1] \in {"nojekyll_ok", "nojekyll_refused"}
PagesFiles(repo) ==
  DOMAIN repo.files \cap {"docs/index.html", "gh-pages:index.html", ".nojekyll"}
C21_ServingStrategies ==
  [][\A o \in OpIds :
       /\ StrategyOrder(log'[o])
       /\ (\E i \in 1..Len(log'[o]) : PagesEvent(log'[o][i]) /\ i > Len(log[o])) =>
            /\ pc'[o] = "pages_sleep"
            /\ outcome'[o] = "none"
            /\ repo_info'[o].pages_url =
                 Url("github.io", generate_repo_name(req[o].task, req[o].round, o))
            /\ Cardinality(PagesFiles(repos'[repo_info'[o].repo_url])) =
                 Count(log'[o], "docs_ok") + Count(log'[o], "gh-pages_ok")
                   + Count(log'[o], "nojekyll_ok")
            /\ Cardinality(PagesFiles(repos'[repo_info'[o].repo_url])) <= 1]_vars

\* All three strategies were refused and the round went on to the record
\* and to a notification that was answered.
C21_Witness ==
  \E o \in OpIds :
    /\ Has(log[o], "nojekyll_refused")
    /\ outcome[o] = "completed"
    /\ tasks[req[o].task] # NoRecord
    /\ sent[o] # NoPayload /\ sent[o].pages_url = repo_info[o].pages_url
    /\ Notified(o)

\* C22: the payload of an operation has the email, the task id and the nonce
\* of the operation's own request, and the PublishResult of the operation's
\* own publisher call: the address of the repository that call created
\* (round 1) or updated (round 2), a commit of that repository, and the
\* pages address of that repository.
PublishedAt(o) ==
  IF req[o].round = 1
    THEN Url("github.com", generate_repo_name(req[o].task, req[o].round, o))
    ELSE update_url[o]
C22_PayloadOfOwnExecution ==
  \A o \in OpIds :
    sent[o] # NoPayload =>
      /\ sent[o].email = req[o].email
      /\ sent[o].task = req[o].task
      /\ sent[o].nonce = req[o].nonce
      /\ sent[o].repo_url = PublishedAt(o)
      /\ sent[o].repo_url \in DOMAIN repos
      /\ sent[o].commit_sha.name = sent[o].repo_url.name
      /\ sent[o].commit_sha.n \in 1..Len(repos[sent[o].repo_url].commits)
      /\ sent[o].pages_url = Url("github.io", sent[o].repo_url.name)
      /\ sent[o].repo_url = repo_info[o].repo_url
      /\ sent[o].commit_sha = repo_info[o].commit_sha
      /\ sent[o].pages_url = repo_info[o].pages_url

\* Both rounds of one task id have sent their payloads, with different
\* submitters and nonces and different revisions of the same repository.
C22_Witness ==
  \E o1, o2 \in OpIds :
    /\ req[o1].round = 1 /\ req[o2].round = 2 /\ req[o1].task = req[o2].task
    /\ sent[o1] # NoPayload /\ sent[o2] # NoPayload
    /\ sent[o1].email # sent[o2].email /\ sent[o1].nonce # sent[o2].nonce
    /\ sent[o1].repo_url = sent[o2].repo_url
    /\ sent[o1].commit_sha # sent[o2].commit_sha

\* C23: the time budget is nested.  The stage limit is below the total
\* limit, and the longest the notifier can take, NOTIFY_ATTEMPTS attempts of
\* NOTIFY_TIMEOUT seconds with a delay between two attempts, fits between
\* the two; no operation's notifier takes longer than that.
NotifierWorstCase == NOTIFY_ATTEMPTS * NOTIFY_TIMEOUT + (NOTIFY_ATTEMPTS - 1) * RETRY_DELAY
RECURSIVE NotifierTime(_, _)
\* Seconds the first k attempts took, the delays between them included.
NotifierTime(att, k) ==
  IF k = 0 THEN 0
  ELSE NotifierTime(att, k - 1) + CallTime(att[k], NOTIFY_TIMEOUT)
         + (IF k > 1 THEN RETRY_DELAY ELSE 0)
HandedToPublisher(o) == Has(log[o], "create") \/ Has(log[o], "update")
C24_EntryPointAlwaysPresent ==
  \A o \in OpIds :
    /\ HandedToPublisher(o) => app_files[o] # <<>>
    /\ app_files[o] # <<>> =>
         \E i \in 1..Len(app_files[o]) : app_files[o][i].name = "index.html"

\* Round 1 handed over the placeholder page of the fallback after the
\* backend failed, and round 2 handed over the overlay of the modify path.
C24_Witness ==
  \E o1, o2 \in OpIds :
    /\ req[o1].round = 1 /\ gen_out[o1] \in {"status", "timeout", "neterr", "unexpected"}
    /\ Has(log[o1], "create")
    /\ app_files[o1][1] = File("index.html", generate_fallback_html(req[o1].brief))
    /\ req[o2].round = 2 /\ Has(log[o2], "update")
    /\ Len(app_files[o2]) = 2

\* C25: a submission with the valid secret is accepted whatever its round
\* and task id and whatever the other operations are doing, a duplicate of a
\* (task, round) in flight included: the answer is status accepted with the
\* task and the round of the submission itself, the slot of the submission
\* is scheduled, and no other slot is scheduled, ended or answered by it.
C25_AcceptedUnconditionally ==
  [][\A o \in OpIds :
       (Received(o) /\ req'[o].secret = CONFIG.SECRET) =>
         /\ ack'[o].status = "accepted"
         /\ ack'[o].task = req'[o].task
         /\ ack'[o].round = req'[o].round
         /\ ack'[o].message = req'[o].round
         /\ pc'[o] = "scheduled"
         /\ \A p \in OpIds \ {o} : pc'[p] = pc[p] /\ ack'[p] = ack[p] /\ req'[p] = req[p]]_vars

\* A submission was accepted while an operation of the same task id and
\* round was suspended in a call of its pipeline.
C25_Witness ==
  \E o1, o2 \in OpIds :
    /\ o1 # o2
    /\ req[o1].task = req[o2].task /\ req[o1].round = req[o2].round
    /\ pc[o1] \in Suspended /\ pc[o2] = "scheduled"
    /\ ack[o1] = Acknowledgment(req[o1]) /\ ack[o2] = Acknowledgment(req[o2])

\* C26: the stage order of round 1.  In the log of a round-1 operation the
\* generator call comes before the create call, the record write after the
\* create call and before every notification attempt; the record is written
\* once, by a step that adds the write to the log of the operation, and only
\* when the repository exists with all the files of the artifact set and the
\* PublishResult has its revision.
StageOrder(lg) ==
  /\ Precedes(lg, "gen", "create")
  /\ Precedes(lg, "create", "put")
  /\ Precedes(lg, "put", "notify")
  /\ Count(lg, "put") <= 1
CreateSucceeded(o) ==
  /\ repo_info[o].repo_url \in DOMAIN repos
  /\ Names(app_files[o]) \subseteq DOMAIN repos[repo_info[o].repo_url].files
C26_Round1StageOrder ==
  [][\A o \in OpIds :
       req'[o].round = 1 =>
         /\ StageOrder(log'[o])
         /\ Count(log'[o], "put") > Count(log[o], "put") =>
              /\ CreateSucceeded(o)
              /\ repo_info'[o].commit_sha # NoSha
              /\ tasks'[req[o].task] = RoundRecord(req[o], repo_info'[o])
         /\ (tasks'[req'[o].task] # tasks[req'[o].task] /\ OwnTask(o)) =>
              Count(log'[o], "put") > Count(log[o], "put")]_vars

\* A round-1 operation went through the four stages and its notification
\* was answered at the second attempt.
C26_Witness ==
  \E o \in OpIds :
    /\ req[o].round = 1 /\ outcome[o] = "completed"
    /\ Has(log[o], "gen") /\ Has(log[o], "create") /\ Has(log[o], "put")
    /\ Count(log[o], "notify") = 2
    /\ tasks[req[o].task] # NoRecord

\* C27: within one round-2 operation the repository the existing code was
\* fetched from (the address in the record handed to modify_existing_app)
\* and the repository updated (the address update_github_repository read)
\* are the same address.
C27_FetchedIsUpdated ==
  \A o \in OpIds :
    (req[o].round # 1 /\ update_url[o] # NoUrl) =>
      update_url[o] = round1_data[o].repo_url

\* C28: once the stage limit has passed, an operation has no further effect.
\* A step of an operation that ends past the limit commits no file to a
\* repository, writes no record and posts no notification attempt.
CommitsOf(rs, url) == IF url \in DOMAIN rs THEN rs[url].commits ELSE <<>>
StepOf(o) == pc[o] \in {"scheduled"} \cup Suspended /\ pc'[o] # pc[o]
C28_NoEffectPastStageLimit ==
  [][\A o \in OpIds :
       (StepOf(o) /\ elapsed'[o] > TASK_TIMEOUT) =>
         /\ \A url \in DOMAIN repos' : CommitsOf(repos', url) = CommitsOf(repos, url)
         /\ tasks' = tasks
         /\ Count(log'[o], "notify") = Count(log[o], "notify")]_vars

\* C29: an attempt fails exactly when the answer is not a 2xx status.  An
\* attempt answered with a 2xx status is the last one of its operation and
\* ends it as completed; any other attempt that is not the last one allowed
\* is followed by the delay and another attempt, unless the stage timeout
\* ends the operation.
Is2xx(out) == out \in {"200", "201"}
C29_AttemptFailsIffNot2xx ==
  \A o \in OpIds : \A i \in 1..Len(attempts[o]) :
    /\ Is2xx(attempts[o][i]) =>
         i = Len(attempts[o]) /\ pc[o] = "done" /\ outcome[o] = "completed"
    /\ (~Is2xx(attempts[o][i]) /\ i < NOTIFY_ATTEMPTS) =>
         \/ i < Len(attempts[o])
         \/ pc[o] \in {"retry_sleep", "notify_post"}
         \/ outcome[o] = "timeout"

\* C30: the round of a payload is the round of the submission, the one its
\* acknowledgment echoed, whatever integer the round is.
C30_PayloadRoundIsSubmittedRound ==
  \A o \in OpIds :
    sent[o] # NoPayload =>
      sent[o].round = req[o].round /\ sent[o].round = ack[o].round

\* C31: the round store holds a record for a task id only if a round-1
\* operation of that task id has come back from a successful create, and the
\* address of the record is the address that create returned, the address
\* of a repository that has every file of the operation's artifact set.  A
\* record, once there, stays, however the notification of its operation
\* ends.
CreatedFor(o, t) ==
  /\ req[o].round = 1 /\ req[o].task = t
  /\ Has(log[o], "create") /\ Has(log[o], "put")
  /\ repo_info[o].commit_sha # NoSha
  /\ repo_info[o].repo_url = Url("github.com", generate_repo_name(t, 1, o))
  /\ repo_info[o].repo_url \in DOMAIN repos
  /\ Names(app_files[o]) \subseteq DOMAIN repos[repo_info[o].repo_url].files
RecordsComeFromCreate ==
  \A t \in AllTaskIds :
    tasks[t] # NoRecord =>
      \E o \in OpIds : CreatedFor(o, t) /\ tasks[t].repo_url = repo_info[o].repo_url
C31_RoundStoreInvariant ==
  [][/\ RecordsComeFromCreate'
     /\ \A t \in AllTaskIds : tasks[t] # NoRecord => tasks'[t] # NoRecord]_vars

\* The record of a task id is there after the notification of the operation
\* that wrote it failed at every attempt, and the record of another one
\* after the stage timeout cut the notification of its operation.
C31_Witness ==
  \E o1, o2 \in OpIds :
    /\ CreatedFor(o1, req[o1].task) /\ tasks[req[o1].task] # NoRecord
    /\ outcome[o1] = "completed" /\ Len(attempts[o1]) = NOTIFY_ATTEMPTS
    /\ \A i \in 1..Len(attempts[o1]) : ~AttemptSucceeded(attempts[o1][i])
    /\ CreatedFor(o2, req[o2].task) /\ tasks[req[o2].task] # NoRecord
    /\ outcome[o2] = "timeout"

\* C32: the file a serving strategy writes (docs/index.html on main,
\* index.html on gh-pages) has the content of index.html of the repository,
\* the entry point of the artifact set.
C32_ServedPageIsEntryPoint ==
  \A url \in DOMAIN repos :
    \A n \in {"docs/index.html", "gh-pages:index.html"} :
      n \in DOMAIN repos[url].files =>
        /\ "index.html" \in DOMAIN repos[url].files
        /\ repos[url].files[n] = repos[url].files["index.html"]

\* C33: the template of the fallback follows from the lower-cased brief with
\* a fixed precedence: the calculator when the brief has "calculator"; if
\* not, the captcha when it has "captcha"; if not, the markdown converter
\* when it has "markdown" or "html"; if none, the placeholder page with the
\* brief in it.  Every brief gets exactly one of the four.
Mentions(brief, word) ==
  \E i \in 1..Len(brief) :
    \/ brief[i] = word
    \/ word = "calculator" /\ brief[i] = "Calculator"
    \/ word = "captcha" /\ brief[i] = "CAPTCHA"
    \/ word = "markdown" /\ brief[i] = "Markdown"
    \/ word = "html" /\ brief[i] = "HTML"
C33_TemplatePrecedence ==
  \A o \in OpIds :
    Generated(o) =>
      LET brief == req[o].brief
          page == app_files[o][1]
          calc == Mentions(brief, "calculator")
          capt == Mentions(brief, "captcha")
          mark == Mentions(brief, "markdown") \/ Mentions(brief, "html")
      IN /\ page.name = "index.html"
         /\ page.content.kind \in
              {"calculator_html", "captcha_html", "markdown_html", "placeholder_html"}
         /\ page.content.kind = "calculator_html" <=> calc
         /\ page.content.kind = "captcha_html" <=> (~calc /\ capt)
         /\ page.content.kind = "markdown_html" <=> (~calc /\ ~capt /\ mark)
         /\ page.content.kind = "placeholder_html" <=> (~calc /\ ~capt /\ ~mark)
         /\ page.content.kind = "placeholder_html" => page.content.b1 = brief

\* A brief with both "captcha" and "calculator" got the calculator, and one
\* with both "captcha" and "markdown" the captcha.
C33_Witness ==
  \E o1, o2 \in OpIds :
    /\ Generated(o1) /\ req[o1].brief = <<"a", "CAPTCHA", "Calculator">>
    /\ app_files[o1][1].content.kind = "calculator_html"
    /\ Generated(o2) /\ req[o2].brief = <<"CAPTCHA", "in", "Markdown">>
    /\ app_files[o2][1].content.kind = "captcha_html"

\* C34: a pipeline that returns normally has taken at most the stage limit,
\* so the total-time check after it never finds the deadline missed.
C34_DeadlineBranchNeverTaken ==
  \A o \in OpIds :
    /\ outcome[o] # "deadline_missed"
    /\ outcome[o] = "completed" => elapsed[o] <= TASK_TIMEOUT

\* What the repository a round 1 record names holds as index.html, as a
\* one-file artifact set, or nothing.
StoredIndex(t) ==
  LET url == tasks[t].repo_url IN
  IF url \in DOMAIN repos /\ "index.html" \in DOMAIN repos[url].files
    THEN << File("index.html", repos[url].files["index.html"]) >>
    ELSE <<>>

\* C35: an operation of round 2 whose task has a round 1 record always goes
\* from its start to the generator modify call, whatever the fetch of the
\* existing artifacts did: the operation has not ended, the modify request is
\* posted, and the existing code it carries is the repository's index.html or
\* empty, never an error.
C35_FetchFailureNotFatal ==
  [][\A o \in OpIds :
       (/\ pc[o] = "scheduled" /\ pc'[o] # "scheduled"
        /\ req[o].round # 1 /\ tasks[req[o].task] # NoRecord) =>
          /\ pc'[o] = "modify_post"
          /\ outcome'[o] = "none"
          /\ log'[o] = log[o] \o <<"fetch", "modify">>
          /\ existing_code'[o] \in {<<>>, StoredIndex(req[o].task)}]_vars

\* A round 2 operation whose fetch failed although the repository of round 1
\* holds an index.html, and which went on to update the repository and
\* returned.
C35_Witness ==
  \E o \in OpIds :
    /\ req[o].round = 2 /\ outcome[o] = "completed"
    /\ Has(log[o], "fetch") /\ Has(log[o], "update")
    /\ existing_code[o] = <<>>
    /\ StoredIndex(req[o].task) # <<>>
    /\ sent[o].repo_url = tasks[req[o].task].repo_url

\* ---- task_templates.py: get_template_task ----

InstructorEmails == {"a@example.com", "b@example.com"}
HourSeeds == {"2025-01-01-10", "2025-01-01-11"}
MaxVariant == 2

\* generate_seed_data: base64 of "{email}-{hour_seed}-round2".
generate_seed_data(email, hour_seed) ==
  <<"b64(", email, "-", hour_seed, "-round2", ")">>

\* generate_result: a number computed from the md5 of the seed data.
generate_result(seed_data) == [md5_mod_1000 |-> seed_data]

\* url.replace("${seed_data}", seed_data): base64 text holds no "$", so a URL
\* that was filled once has nothing left to replace.
replace_seed_data(url, seed_data) ==
  IF url.data = Placeholder THEN [url EXCEPT !.data = seed_data] ELSE url

\* `for attachment in attachments: attachment["url"] = ...replace(...)`: the
\* dicts of the list are written in place.
fill_attachments(attachments, seed_data) ==
  [i \in 1..Len(attachments) |->
     [attachments[i] EXCEPT !.url = replace_seed_data(@, seed_data)]]

Call(template_id, email, hour_seed, round_num, variant, raised, result) ==
  [template_id |-> template_id, email |-> email, hour_seed |-> hour_seed,
   round_num |-> round_num, variant |-> variant, raised |-> raised,
   result |-> result]

\* get_template_task.  `attachments` is the list object of the table itself
\* (template.get("attachments", []) and variant_data.get("attachments", [])
\* return the stored list when the key is there), so the loop that fills the
\* URLs writes the table.
get_template_task(template_id, email, hour_seed, round_num, variant) ==
  /\ IF template_id \notin DOMAIN TASK_TEMPLATES
       THEN /\ issued' = Call(template_id, email, hour_seed, round_num, variant,
                              "ValueError", <<>>)
            /\ UNCHANGED TASK_TEMPLATES
     ELSE
       LET template == TASK_TEMPLATES[template_id]
           seed_data == generate_seed_data(email, hour_seed)
           result == generate_result(seed_data)
       IN
       IF round_num = 1
         THEN LET attachments == fill_attachments(template.attachments, seed_data) IN
              /\ TASK_TEMPLATES' =
                   [TASK_TEMPLATES EXCEPT ![template_id].attachments = attachments]
              /\ issued' = Call(template_id, email, hour_seed, round_num, variant, "none",
                   [brief |-> [template |-> template_id, slot |-> 0, seed |-> hour_seed],
                    attachments |-> attachments,
                    checks |-> [seed |-> hour_seed, result |-> result]])
       ELSE IF Len(template.round2) = 0
         THEN /\ issued' = Call(template_id, email, hour_seed, round_num, variant,
                                "ValueError", <<>>)
              /\ UNCHANGED TASK_TEMPLATES
       ELSE LET k == (variant % Len(template.round2)) + 1
                attachments ==
                  fill_attachments(template.round2[k].attachments, seed_data)
            IN
            /\ TASK_TEMPLATES' =
                 [TASK_TEMPLATES EXCEPT
                    ![template_id].round2[k].attachments = attachments]
            /\ issued' = Call(template_id, email, hour_seed, round_num, variant, "none",
                 [brief |-> [template |-> template_id, slot |-> k, seed |-> hour_seed],
                  attachments |-> attachments,
                  checks |-> [seed |-> hour_seed, result |-> result]])
  /\ UNCHANGED <<service, receiver>>

\* The instructor's side alone: any sequence of calls of get_template_task.
TemplateNext ==
  \E template_id \in TemplateIds \cup {"unknown"}, email \in InstructorEmails,
     hour_seed \in HourSeeds, round_num \in {1, 2}, variant \in 0..MaxVariant :
    get_template_task(template_id, email, hour_seed, round_num, variant)

TemplateSpec == Init /\ [][TemplateNext]_vars

\* Every attachment URL the last call returned carries the seed data of that
\* call's own email and hour_seed.
ResultEmbedsOwnSeed ==
  (issued.template_id # "none" /\ issued.raised = "none") =>
    \A i \in 1..Len(issued.result.attachments) :
      issued.result.attachments[i].url.data =
        generate_seed_data(issued.email, issued.hour_seed)

\* C36: get_template_task leaves TASK_TEMPLATES as the module text defines
\* it, and every attachment URL a call returns carries the seed data of that
\* call's own email and hour_seed, whatever calls were made before.
C36_TemplateCallsIndependent ==
  /\ TASK_TEMPLATES = TemplateTable
  /\ ResultEmbedsOwnSeed

\* ---- notification_receiver.py, db_setup.py, recreate_database.py ----

MaxRows == 3

\* A created_repos table: its columns, and those that are NOT NULL without a
\* default (id is the autoincrement key, timestamp has a default).
Table(columns, required) == [columns |-> columns, required |-> required, exists |-> TRUE]

\* CREATE TABLE created_repos of db_setup.setup_database.
SetupSchema ==
  Table({"id", "timestamp", "task_id", "repo_url", "pages_url", "commit_sha", "round",
         "github_username", "repo_name"},
        {"task_id", "repo_url", "pages_url", "commit_sha", "round"})

\* CREATE TABLE created_repos of recreate_database.
RecreateSchema ==
  Table({"id", "timestamp", "task_id", "repo_url", "pages_url", "commit_sha", "round"},
        {})

\* CREATE TABLE created_repos of create_missing_tables.
ReceiverSchema ==
  Table({"id", "timestamp", "task_id", "repo_url", "pages_url", "commit_sha", "round",
         "email", "task", "nonce"},
        {"repo_url", "pages_url", "commit_sha", "round"})

\* The columns the INSERT of evaluate_submission names.
InsertColumns ==
  {"email", "task", "round", "nonce", "repo_url", "commit_sha", "pages_url"}

\* Well-formed notifications (EvaluationRequest), after the one of
\* test_my_api.py.
ReceiverRequests ==
  { [email |-> e, task |-> "test-task", round |-> rd, nonce |-> "test-nonce",
     repo_url |-> "https://github.com/test/repo", commit_sha |-> "abc123",
     pages_url |-> "https://test.github.io/repo"] :
       e \in {"test@example.com", "other@example.com"}, rd \in {1, 2} }

\* What sqlite does with the INSERT: db = "fault" is a failure of the database
\* itself (it cannot be opened, it is locked); otherwise the statement is
\* checked against the table.
DbStates == {"ok", "fault"}
insert_error(schema, db) ==
  IF db = "fault" THEN "fault"
  ELSE IF ~schema.exists THEN "no such table"
  ELSE IF ~(InsertColumns \subseteq schema.columns) THEN "no column"
  ELSE IF ~(schema.required \subseteq InsertColumns) THEN "not null"
  ELSE "none"

\* The row an accepted notification becomes: id from the autoincrement key,
\* task_id left NULL.
Row(id, request) ==
  [id |-> id, task_id |-> "NULL", email |-> request.email, task |-> request.task,
   round |-> request.round, nonce |-> request.nonce, repo_url |-> request.repo_url,
   commit_sha |-> request.commit_sha, pages_url |-> request.pages_url]

\* db_setup.setup_database: CREATE TABLE IF NOT EXISTS.  Its file is
\* evaluation.db beside db_setup.py, the receiver's is database/evaluation.db
\* beside notification_receiver.py: they are one file only when db_setup.py
\* lies in database/ (same_file).
setup_database(same_file) ==
  /\ created_repos_schema' =
       IF same_file /\ ~created_repos_schema.exists
         THEN SetupSchema ELSE created_repos_schema
  /\ UNCHANGED <<service, instructor, created_repos, reply>>

\* recreate_database: the file is removed and the tables created afresh.
recreate_database ==
  /\ created_repos_schema' = RecreateSchema
  /\ created_repos' = <<>>
  /\ UNCHANGED <<service, instructor, reply>>

\* create_missing_tables, run when the receiver is started as a script:
\* CREATE TABLE IF NOT EXISTS.
create_missing_tables ==
  /\ created_repos_schema' =
       IF created_repos_schema.exists THEN created_repos_schema ELSE ReceiverSchema
  /\ UNCHANGED <<service, instructor, created_repos, reply>>

\* POST /evaluate: the INSERT and the commit, or the rollback and HTTP 500.
evaluate_submission(request, db) ==
  /\ Len(created_repos) < MaxRows
  /\ LET err == insert_error(created_repos_schema, db) IN
     IF err = "none"
       THEN /\ created_repos' =
                 Append(created_repos, Row(Len(created_repos) + 1, request))
            /\ reply' = [code |-> 200, body |-> "accepted", request |-> request,
                         error |-> "none"]
       ELSE /\ reply' = [code |-> 500, body |-> "Database error", request |-> request,
                         error |-> err]
            /\ UNCHANGED created_repos
  /\ UNCHANGED <<service, instructor, created_repos_schema>>

\* The receiver and the setup scripts, run in any order.
ReceiverNext ==
  \/ \E same_file \in BOOLEAN : setup_database(same_file)
  \/ recreate_database
  \/ create_missing_tables
  \/ \E request \in ReceiverRequests, db \in DbStates : evaluate_submission(request, db)

ReceiverSpec == Init /\ [][ReceiverNext]_vars

\* C37: on a database that one of the setup paths created, every well-formed
\* notification is answered {status: accepted} and stored as one row with its
\* fields; an answer of 500 comes only from a failure of the database itself
\* (or from a database no setup path has created), and stores nothing.
C37_ReceiverAcceptsOnAnySetup ==
  /\ [](reply.code # 0 =>
          \/ reply.code = 200 /\ reply.body = "accepted"
          \/ reply.code = 500 /\ reply.error \in {"fault", "no such table"})
  /\ [][created_repos' # created_repos =>
          \/ created_repos' = <<>>
          \/ /\ reply'.code = 200
             /\ created_repos' =
                  Append(created_repos, Row(Len(created_repos) + 1, reply'.request))]_vars
  /\ [][(reply' # reply /\ reply'.code = 500) => created_repos' = created_repos]_vars

====
